---- MODULE Spec2Model ----
(***************************************************************************)
(* CloneLab core engine: restriction-site search (enzymes/finder.ts),      *)
(* restriction digest (analysis/digest.ts) and ligation prediction         *)
(* (analysis/ligation.ts).                                                 *)
(*                                                                         *)
(* DNA strings are sequences of one-character strings, so that the         *)
(* JavaScript string operations the code uses (substring, indexOf, split,  *)
(* reverse, concatenation) are computed position by position.              *)
(***************************************************************************)
EXTENDS Integers, Sequences, FiniteSets, TLC

VARIABLES
    sequence,        \* the SequenceRecord under analysis
    enzymeDb,        \* the enzyme catalog handed to the engine (names in insertion order)
    sites,           \* result of findRestrictionSites: enzyme name -> list of sites
    digestSites,     \* the site list handed to simulateDigest
    fragments,       \* result of simulateDigest
    vectorFragment,  \* first argument of predictLigationProducts
    insertFragment,  \* second argument of predictLigationProducts
    products,        \* result of predictLigationProducts
    pc,              \* which engine call produced the current state
    insertSequence,  \* the SequenceRecord of the insert
    insertSites,     \* the site list handed to simulateDigest for the insert
    insertFragments, \* result of simulateDigest on the insert
    candidates,      \* the enzymes handed to evaluateEnzymePair
    pairs,           \* result of suggestEnzymePairs
    selectedFragmentIds, \* digestSlice.selectedFragmentIds
    ligation,        \* the state of ligationSlice
    params,          \* the LigationParameters handed to calculateLigationProtocol
    protocol,        \* result of calculateLigationProtocol
    roundTrip        \* result of reverseComplement applied twice

\* the variables of the insert, the pairing advisor, the ligation slice, the
\* protocol and the sequence utilities
advisorVars == <<insertSequence, insertSites, insertFragments, candidates, pairs,
                 selectedFragmentIds, ligation, params, protocol, roundTrip>>

vars == <<sequence, enzymeDb, sites, digestSites, fragments,
          vectorFragment, insertFragment, products, pc, advisorVars>>

(***************************************************************************)
(* Bounds of the model.                                                    *)
(***************************************************************************)
\* longest sequence searched for sites
MaxSeqLen == 6
\* longest sequence digested at caller-chosen sites
MaxDigestLen == 3
\* longest caller-chosen site list
MaxSites == 2

\* the bases sequences are drawn from
SeqBases == {"A", "C", "G", "T"}

\* JavaScript's undefined for a missing string property; a one-element tuple, so
\* that it is comparable with every DNA string and equal to none
Undefined == <<"undefined">>

Min(a, b) == IF a < b THEN a ELSE b
Max(a, b) == IF a > b THEN a ELSE b

Range(s) == {s[i] : i \in 1..Len(s)}

\* all sequences over S of length 0..n
SeqsUpTo(S, n) == UNION {[1..k -> S] : k \in 0..n}

RECURSIVE Concat(_)
\* Array.prototype.flatMap / repeated string concatenation
Concat(ss) == IF ss = <<>> THEN <<>> ELSE Head(ss) \o Concat(Tail(ss))

RECURSIVE SumSeq(_)
SumSeq(ns) == IF ns = <<>> THEN 0 ELSE Head(ns) + SumSeq(Tail(ns))

(***************************************************************************)
(* JavaScript string primitives.                                           *)
(***************************************************************************)
\* ToIntegerOrInfinity followed by the clamp to [0, length] of substring/indexOf
Clamp(x, n) == IF x < 0 THEN 0 ELSE IF x > n THEN n ELSE x

\* String.prototype.substring(start, end): both clamped, swapped when start > end
substring(s, start, end) ==
    LET a == Clamp(start, Len(s))
        b == Clamp(end, Len(s))
    IN SubSeq(s, Min(a, b) + 1, Max(a, b))

\* String.prototype.substring(start): to the end of the string
substringFrom(s, start) == substring(s, start, Len(s))

RECURSIVE indexOf(_, _, _)
\* String.prototype.indexOf(searchString, position): first match at or after
\* position, -1 when there is none
indexOf(s, searchString, position) ==
    LET start == Clamp(position, Len(s))
    IN IF start + Len(searchString) > Len(s) THEN -1
       ELSE IF SubSeq(s, start + 1, start + Len(searchString)) = searchString THEN start
       ELSE indexOf(s, searchString, start + 1)

\* the remainder operator a % n of JavaScript for n > 0: the sign of the dividend
jsRem(a, n) == IF a >= 0 THEN a % n ELSE -((-a) % n)

\* String.prototype.toUpperCase on one character
UpperChar(c) ==
    CASE c = "a" -> "A" [] c = "c" -> "C" [] c = "g" -> "G" [] c = "t" -> "T"
      [] c = "n" -> "N" [] OTHER -> c

toUpperCase(s) == [i \in 1..Len(s) |-> UpperChar(s[i])]

\* Array.prototype.reverse
Reverse(s) == [i \in 1..Len(s) |-> s[Len(s) + 1 - i]]

(***************************************************************************)
(* utils/sequence.ts                                                       *)
(***************************************************************************)
\* the complement table with a slip in the entry of C
complementSlip ==
    [base \in {"A","T","G","C","N","R","Y","S","W","K","M","B","D","H","V"} |->
       CASE base = "A" -> "T" [] base = "T" -> "A" [] base = "G" -> "C" [] base = "C" -> "C"
         [] base = "N" -> "N"
         [] base = "R" -> "Y" [] base = "Y" -> "R" [] base = "S" -> "S" [] base = "W" -> "W"
         [] base = "K" -> "M" [] base = "M" -> "K" [] base = "B" -> "V" [] base = "D" -> "H"
         [] base = "H" -> "D" [] base = "V" -> "B"]

\* the complement table of reverseComplement (bases and IUPAC ambiguity codes)
complement ==
    [base \in {"A","T","G","C","N","R","Y","S","W","K","M","B","D","H","V"} |->
       CASE base = "A" -> "T" [] base = "T" -> "A" [] base = "G" -> "C" [] base = "C" -> "G"
         [] base = "N" -> "N"
         [] base = "R" -> "Y" [] base = "Y" -> "R" [] base = "S" -> "S" [] base = "W" -> "W"
         [] base = "K" -> "M" [] base = "M" -> "K" [] base = "B" -> "V" [] base = "D" -> "H"
         [] base = "H" -> "D" [] base = "V" -> "B"]

\* reverseComplement: upper-case, reverse, complement each base, 'N' for a base
\* the table does not know
reverseComplement(s) ==
    LET r == Reverse(toUpperCase(s))
    IN [i \in 1..Len(r) |->
          IF r[i] \in DOMAIN complement THEN complement[r[i]] ELSE "N"]

(***************************************************************************)
(* The enzyme catalog.  EcoRI and SmaI-style entries follow data/enzymes   *)
(* .json; the four-base cutters have the same shape with shorter           *)
(* recognition sequences, so that short sequences carry several sites;     *)
(* BbvCI is an entry whose overhang is not its own reverse complement.     *)
(* The optional heatInactivation is a tuple: empty when the property is    *)
(* missing, the temperature otherwise.                                     *)
(***************************************************************************)
EnzymePool ==
    [name \in {"EcoRI", "TaqI", "AciI", "HhaI", "AluI", "BbvCI"} |->
       CASE name = "EcoRI" ->
              [name |-> "EcoRI", recognitionSeq |-> <<"G","A","A","T","T","C">>,
               cutPos5 |-> 1, cutPos3 |-> 5, overhangType |-> "5'",
               overhangSeq |-> <<"A","A","T","T">>,
               buffers |-> <<"CutSmart", "EcoRI Buffer">>,
               methylationSensitive |-> FALSE, starActivity |-> TRUE,
               heatInactivation |-> <<65>>]
         [] name = "TaqI" ->
              [name |-> "TaqI", recognitionSeq |-> <<"T","C","G","A">>,
               cutPos5 |-> 1, cutPos3 |-> 3, overhangType |-> "5'",
               overhangSeq |-> <<"C","G">>,
               buffers |-> <<"CutSmart">>,
               methylationSensitive |-> TRUE, starActivity |-> FALSE,
               heatInactivation |-> <<80>>]
         [] name = "AciI" ->
              [name |-> "AciI", recognitionSeq |-> <<"C","C","G","C">>,
               cutPos5 |-> 1, cutPos3 |-> 3, overhangType |-> "5'",
               overhangSeq |-> <<"C","G">>,
               buffers |-> <<"NEBuffer 2">>,
               methylationSensitive |-> FALSE, starActivity |-> FALSE,
               heatInactivation |-> <<>>]
         [] name = "HhaI" ->
              [name |-> "HhaI", recognitionSeq |-> <<"G","C","G","C">>,
               cutPos5 |-> 3, cutPos3 |-> 1, overhangType |-> "3'",
               overhangSeq |-> <<"C","G">>,
               buffers |-> <<"NEBuffer 2", "cutsmart">>,
               methylationSensitive |-> FALSE, starActivity |-> FALSE,
               heatInactivation |-> <<65>>]
         [] name = "AluI" ->
              [name |-> "AluI", recognitionSeq |-> <<"A","G","C","T">>,
               cutPos5 |-> 2, cutPos3 |-> 2, overhangType |-> "blunt",
               overhangSeq |-> <<>>,
               buffers |-> <<"CutSmart">>,
               methylationSensitive |-> FALSE, starActivity |-> FALSE,
               heatInactivation |-> <<80>>]
         [] name = "BbvCI" ->
              [name |-> "BbvCI", recognitionSeq |-> <<"C","C","T","C","A","G","C">>,
               cutPos5 |-> 2, cutPos3 |-> 5, overhangType |-> "5'",
               overhangSeq |-> <<"T","C","A">>,
               buffers |-> <<"CutSmart">>,
               methylationSensitive |-> FALSE, starActivity |-> FALSE,
               heatInactivation |-> <<>>]]

\* the catalogs a caller passes: property names in insertion order
Catalogs ==
    { <<"EcoRI", "TaqI", "AciI", "HhaI", "AluI">>,
      <<"TaqI", "AciI", "HhaI", "AluI">>,
      <<"HhaI">> }

\* enzymeDb[name] is defined: the catalog has an entry of that name
InCatalog(db, name) == name \in Range(db)

(***************************************************************************)
(* enzymes/finder.ts                                                       *)
(***************************************************************************)
\* createSite taking the forward-strand cut offset on both strands
createSiteForwardCut(enzyme, recognitionStart, strand) ==
    [enzyme           |-> enzyme.name,
     position         |-> recognitionStart + enzyme.cutPos5,
     strand           |-> strand,
     recognitionStart |-> recognitionStart,
     recognitionEnd   |-> recognitionStart + Len(enzyme.recognitionSeq),
     overhangSeq      |-> enzyme.overhangSeq]

\* createSite: the RestrictionSite of a match at recognitionStart on strand
createSite(enzyme, recognitionStart, strand) ==
    [enzyme           |-> enzyme.name,
     position         |-> IF strand = 1 THEN recognitionStart + enzyme.cutPos5
                          ELSE recognitionStart + enzyme.cutPos3,
     strand           |-> strand,
     recognitionStart |-> recognitionStart,
     recognitionEnd   |-> recognitionStart + Len(enzyme.recognitionSeq),
     overhangSeq      |-> enzyme.overhangSeq]

RECURSIVE scanStrandUnfiltered(_, _, _, _, _, _)
\* scanStrand keeping the matches that start in the appended prefix too
scanStrandUnfiltered(searchSeq, pattern, enzyme, strand, originalLength, from) ==
    LET pos == indexOf(searchSeq, pattern, from)
    IN IF pos = -1 THEN <<>>
       ELSE <<createSite(enzyme, pos, strand)>>
            \o scanStrandUnfiltered(searchSeq, pattern, enzyme, strand, originalLength,
                                    pos + 1)

RECURSIVE scanStrand(_, _, _, _, _, _)
\* one while loop of findSitesForEnzyme: pos = indexOf(pattern, pos); keep the
\* match when pos < originalLength; pos++
scanStrand(searchSeq, pattern, enzyme, strand, originalLength, from) ==
    LET pos == indexOf(searchSeq, pattern, from)
    IN IF pos = -1 THEN <<>>
       ELSE (IF pos < originalLength THEN <<createSite(enzyme, pos, strand)>> ELSE <<>>)
            \o scanStrand(searchSeq, pattern, enzyme, strand, originalLength, pos + 1)

\* findSitesForEnzyme scanning the reverse complement of a palindrome as well
findSitesForEnzymeBothScans(searchSeq, enzyme, originalLength, topology) ==
    LET pattern    == toUpperCase(enzyme.recognitionSeq)
        patternRev == reverseComplement(pattern)
    IN scanStrand(searchSeq, pattern, enzyme, 1, originalLength, 0)
       \o scanStrand(searchSeq, patternRev, enzyme, -1, originalLength, 0)

\* findSitesForEnzyme: forward scan, then the reverse-complement scan unless the
\* pattern is its own reverse complement
findSitesForEnzyme(searchSeq, enzyme, originalLength, topology) ==
    LET pattern    == toUpperCase(enzyme.recognitionSeq)
        patternRev == reverseComplement(pattern)
    IN scanStrand(searchSeq, pattern, enzyme, 1, originalLength, 0)
       \o (IF pattern # patternRev
           THEN scanStrand(searchSeq, patternRev, enzyme, -1, originalLength, 0)
           ELSE <<>>)

RECURSIVE MaxOf(_)
\* Math.max(...lengths); -Infinity for no argument, which substring clamps to 0
\* like any negative number
MaxOf(ns) == IF ns = <<>> THEN -1 ELSE Max(Head(ns), MaxOf(Tail(ns)))

\* findRestrictionSites searching the sequence as it is, whatever the topology
findRestrictionSitesNoExtension(seq, db, topology) ==
    [name \in Range(db) |->
       findSitesForEnzyme(seq, EnzymePool[name], Len(seq), topology)]

\* findRestrictionSites: one entry per catalog enzyme, searched in the sequence
\* extended by its first maxRecognitionLength bases when the topology is circular
findRestrictionSites(seq, db, topology) ==
    LET maxRecognitionLength ==
            MaxOf([i \in 1..Len(db) |-> Len(EnzymePool[db[i]].recognitionSeq)])
        searchSeq == IF topology = "circular"
                     THEN seq \o substring(seq, 0, maxRecognitionLength)
                     ELSE seq
    IN [name \in Range(db) |->
          findSitesForEnzyme(searchSeq, EnzymePool[name], Len(seq), topology)]

(***************************************************************************)
(* analysis/digest.ts                                                      *)
(***************************************************************************)
\* crypto.randomUUID(): the k-th identifier drawn in a call whose random source
\* is in state uuid
randomUUID(uuid, k) == <<uuid, k>>

\* the states of the random source a call may meet
UuidSeeds == {"u1", "u2"}

\* the literal { type: 'blunt' }: no overhang sequence, no enzyme
BluntEnd == [type |-> "blunt", overhangSeq |-> Undefined, enzyme |-> "undefined"]

\* createFragmentEnd(enzyme, strand, complement)
createFragmentEnd(enzyme, strand, compl) ==
    IF enzyme.overhangType = "blunt"
    THEN [type |-> "blunt", overhangSeq |-> Undefined, enzyme |-> enzyme.name]
    ELSE [type |-> IF enzyme.overhangType = "5'"
                   THEN (IF compl THEN "3'-overhang" ELSE "5'-overhang")
                   ELSE (IF compl THEN "5'-overhang" ELSE "3'-overhang"),
          overhangSeq |-> IF compl THEN reverseComplement(enzyme.overhangSeq)
                          ELSE enzyme.overhangSeq,
          enzyme |-> enzyme.name]

\* complementFragmentEnd keeping the overhang type
complementFragmentEndSameType(end) ==
    IF end.type = "blunt" THEN end
    ELSE [type |-> end.type,
          overhangSeq |-> IF end.overhangSeq # Undefined /\ end.overhangSeq # <<>>
                          THEN reverseComplement(end.overhangSeq)
                          ELSE Undefined,
          enzyme |-> end.enzyme]

\* complementFragmentEnd copying the overhang instead of reverse-complementing it
complementFragmentEndSameOverhang(end) ==
    IF end.type = "blunt" THEN end
    ELSE [type |-> IF end.type = "5'-overhang" THEN "3'-overhang" ELSE "5'-overhang",
          overhangSeq |-> IF end.overhangSeq # Undefined /\ end.overhangSeq # <<>>
                          THEN end.overhangSeq
                          ELSE Undefined,
          enzyme |-> end.enzyme]

\* complementFragmentEnd: a blunt end is returned as it is; a sticky end gets the
\* other overhang type and the reverse complement of a non-empty overhang
complementFragmentEnd(end) ==
    IF end.type = "blunt" THEN end
    ELSE [type |-> IF end.type = "5'-overhang" THEN "3'-overhang" ELSE "5'-overhang",
          overhangSeq |-> IF end.overhangSeq # Undefined /\ end.overhangSeq # <<>>
                          THEN reverseComplement(end.overhangSeq)
                          ELSE Undefined,
          enzyme |-> end.enzyme]

\* extractFeatures keeping every feature that starts inside [start, end]
extractFeaturesStartingInside(features, start, end) ==
    LET inside == SelectSeq(features, LAMBDA f : f.start >= start /\ f.start <= end)
    IN [i \in 1..Len(inside) |->
          [inside[i] EXCEPT !.start = inside[i].start - start,
                            !.end   = inside[i].end - start]]

\* extractFeatures: the features inside [start, end], rebased to start
extractFeatures(features, start, end) ==
    LET inside == SelectSeq(features, LAMBDA f : f.start >= start /\ f.end <= end)
    IN [i \in 1..Len(inside) |->
          [inside[i] EXCEPT !.start = inside[i].start - start,
                            !.end   = inside[i].end - start]]

\* sortByPosition with the sort forgotten: the sites in the caller's order
sortByPositionUnsorted(ss) == ss

RECURSIVE sortByPosition(_)
\* [...sites].sort((a, b) => a.position - b.position): a stable sort
sortByPosition(ss) ==
    IF ss = <<>> THEN <<>>
    ELSE LET front  == sortByPosition(SubSeq(ss, 1, Len(ss) - 1))
             x      == ss[Len(ss)]
             before == SelectSeq(front, LAMBDA y : y.position <= x.position)
             after  == SelectSeq(front, LAMBDA y : y.position > x.position)
         IN before \o <<x>> \o after

RECURSIVE digestLinearLoop(_, _, _, _, _, _, _, _)
\* the for loop of digestLinear from site i on, then the final fragment
digestLinearLoop(sequence_, sortedSites, db, uuid, i, frags, prevPos, prevEnd) ==
    IF i > Len(sortedSites)
    THEN LET finalSeq == substringFrom(sequence_.sequence, prevPos)
         IN Append(frags,
               [id            |-> randomUUID(uuid, Len(frags) + 1),
                sequence      |-> finalSeq,
                length        |-> Len(finalSeq),
                start         |-> prevPos,
                end           |-> sequence_.length,
                fivePrimeEnd  |-> prevEnd,
                threePrimeEnd |-> BluntEnd,
                features      |-> extractFeatures(sequence_.features, prevPos,
                                                  sequence_.length)])
    ELSE LET site == sortedSites[i]
         IN IF ~InCatalog(db, site.enzyme)
            THEN digestLinearLoop(sequence_, sortedSites, db, uuid, i + 1, frags,
                                  prevPos, prevEnd)
            ELSE LET currentEnd == createFragmentEnd(EnzymePool[site.enzyme],
                                                     site.strand, FALSE)
                     fragSeq    == substring(sequence_.sequence, prevPos, site.position)
                 IN digestLinearLoop(sequence_, sortedSites, db, uuid, i + 1,
                       Append(frags,
                          [id            |-> randomUUID(uuid, Len(frags) + 1),
                           sequence      |-> fragSeq,
                           length        |-> Len(fragSeq),
                           start         |-> prevPos,
                           end           |-> site.position,
                           fivePrimeEnd  |-> prevEnd,
                           threePrimeEnd |-> currentEnd,
                           features      |-> extractFeatures(sequence_.features, prevPos,
                                                             site.position)]),
                       site.position, complementFragmentEnd(currentEnd))

\* digestLinear
digestLinear(sequence_, sortedSites, db, uuid) ==
    digestLinearLoop(sequence_, sortedSites, db, uuid, 1, <<>>, 0, BluntEnd)

RECURSIVE digestCircularLoopNoSplice(_, _, _, _, _, _)
\* the loop of digestCircular without the head substring of a fragment that
\* spans the origin
digestCircularLoopNoSplice(sequence_, sortedSites, db, uuid, i, frags) ==
    IF i >= Len(sortedSites) THEN frags
    ELSE LET currentSite == sortedSites[i + 1]
             nextSite    == sortedSites[((i + 1) % Len(sortedSites)) + 1]
             start       == currentSite.position
             end         == IF i = Len(sortedSites) - 1
                            THEN sequence_.length + nextSite.position
                            ELSE nextSite.position
             fragSeq     == substring(sequence_.sequence, start, end)
         IN IF ~InCatalog(db, currentSite.enzyme) \/ ~InCatalog(db, nextSite.enzyme)
            THEN digestCircularLoopNoSplice(sequence_, sortedSites, db, uuid, i + 1, frags)
            ELSE digestCircularLoopNoSplice(sequence_, sortedSites, db, uuid, i + 1,
                   Append(frags,
                      [id            |-> randomUUID(uuid, Len(frags) + 1),
                       sequence      |-> fragSeq,
                       length        |-> Len(fragSeq),
                       start         |-> start,
                       end           |-> jsRem(end, sequence_.length),
                       fivePrimeEnd  |-> createFragmentEnd(EnzymePool[currentSite.enzyme],
                                                           currentSite.strand, FALSE),
                       threePrimeEnd |-> complementFragmentEnd(
                                            createFragmentEnd(EnzymePool[nextSite.enzyme],
                                                              nextSite.strand, FALSE)),
                       features      |-> extractFeatures(sequence_.features, start, end)]))

RECURSIVE digestCircularLoop(_, _, _, _, _, _)
\* the for loop of digestCircular from index i (0-based) on
digestCircularLoop(sequence_, sortedSites, db, uuid, i, frags) ==
    IF i >= Len(sortedSites) THEN frags
    ELSE LET currentSite == sortedSites[i + 1]
             nextSite    == sortedSites[((i + 1) % Len(sortedSites)) + 1]
             start       == currentSite.position
             end         == IF i = Len(sortedSites) - 1
                            THEN sequence_.length + nextSite.position
                            ELSE nextSite.position
             fragSeq     == IF end > sequence_.length
                            THEN substringFrom(sequence_.sequence, start)
                                 \o substring(sequence_.sequence, 0, end - sequence_.length)
                            ELSE substring(sequence_.sequence, start, end)
         IN IF ~InCatalog(db, currentSite.enzyme) \/ ~InCatalog(db, nextSite.enzyme)
            THEN digestCircularLoop(sequence_, sortedSites, db, uuid, i + 1, frags)
            ELSE digestCircularLoop(sequence_, sortedSites, db, uuid, i + 1,
                   Append(frags,
                      [id            |-> randomUUID(uuid, Len(frags) + 1),
                       sequence      |-> fragSeq,
                       length        |-> Len(fragSeq),
                       start         |-> start,
                       end           |-> jsRem(end, sequence_.length),
                       fivePrimeEnd  |-> createFragmentEnd(EnzymePool[currentSite.enzyme],
                                                           currentSite.strand, FALSE),
                       threePrimeEnd |-> complementFragmentEnd(
                                            createFragmentEnd(EnzymePool[nextSite.enzyme],
                                                              nextSite.strand, FALSE)),
                       features      |-> extractFeatures(sequence_.features, start, end)]))

\* digestCircular
digestCircular(sequence_, sortedSites, db, uuid) ==
    digestCircularLoop(sequence_, sortedSites, db, uuid, 0, <<>>)

\* simulateDigest without the early return for an empty site list
simulateDigestNoEarlyReturn(sequence_, sites_, db, uuid) ==
    IF sequence_.topology = "linear"
    THEN digestLinear(sequence_, sortByPosition(sites_), db, uuid)
    ELSE digestCircular(sequence_, sortByPosition(sites_), db, uuid)

\* simulateDigest: the whole sequence as one blunt fragment when there is no
\* site; otherwise the sites sorted by position and digested by topology
simulateDigest(sequence_, sites_, db, uuid) ==
    IF Len(sites_) = 0
    THEN << [id            |-> randomUUID(uuid, 1),
             sequence      |-> sequence_.sequence,
             length        |-> sequence_.length,
             start         |-> 0,
             end           |-> sequence_.length,
             fivePrimeEnd  |-> BluntEnd,
             threePrimeEnd |-> BluntEnd,
             features      |-> sequence_.features] >>
    ELSE IF sequence_.topology = "linear"
         THEN digestLinear(sequence_, sortByPosition(sites_), db, uuid)
         ELSE digestCircular(sequence_, sortByPosition(sites_), db, uuid)

(***************************************************************************)
(* analysis/ligation.ts                                                    *)
(***************************************************************************)
\* the complement table of the reverseComplement local to ligation.ts
ligationComplement ==
    [b \in {"A", "T", "G", "C", "N"} |->
       CASE b = "A" -> "T" [] b = "T" -> "A" [] b = "G" -> "C" [] b = "C" -> "G"
         [] b = "N" -> "N"]

\* reverseComplement of ligation.ts: reverse, complement each base, a base the
\* table does not know stays as it is
ligationReverseComplement(seq) ==
    LET r == Reverse(seq)
    IN [i \in 1..Len(r) |->
          IF r[i] \in DOMAIN ligationComplement THEN ligationComplement[r[i]] ELSE r[i]]

\* areEndsCompatible with the check of the overhang orientation left out
areEndsCompatibleAnyOrientation(end1, end2) ==
    IF end1.type = "blunt" /\ end2.type = "blunt" THEN TRUE
    ELSE IF end1.type = "blunt" \/ end2.type = "blunt" THEN FALSE
    ELSE end1.overhangSeq
           = ligationReverseComplement(IF end2.overhangSeq = Undefined THEN <<>>
                                       ELSE end2.overhangSeq)

\* areEndsCompatible accepting a blunt end against any end
areEndsCompatibleBluntJoinsAny(end1, end2) ==
    IF end1.type = "blunt" \/ end2.type = "blunt" THEN TRUE
    ELSE IF \/ (end1.type = "5'-overhang" /\ end2.type = "3'-overhang")
            \/ (end1.type = "3'-overhang" /\ end2.type = "5'-overhang")
         THEN end1.overhangSeq
                = ligationReverseComplement(IF end2.overhangSeq = Undefined THEN <<>>
                                            ELSE end2.overhangSeq)
         ELSE FALSE

\* areEndsCompatible: two blunt ends; or two sticky ends of opposite overhang
\* type with end1's overhang the reverse complement of end2's (a missing or
\* empty end2 overhang read as the empty string)
areEndsCompatible(end1, end2) ==
    IF end1.type = "blunt" /\ end2.type = "blunt" THEN TRUE
    ELSE IF end1.type = "blunt" \/ end2.type = "blunt" THEN FALSE
    ELSE IF \/ (end1.type = "5'-overhang" /\ end2.type = "3'-overhang")
            \/ (end1.type = "3'-overhang" /\ end2.type = "5'-overhang")
         THEN end1.overhangSeq
                = ligationReverseComplement(IF end2.overhangSeq = Undefined THEN <<>>
                                            ELSE end2.overhangSeq)
         ELSE FALSE

\* the probability weights of the product types, in hundredths
ProbabilityCorrect == 60
ProbabilityReverse == 30
ProbabilitySelfLigation == 10

\* a LigationProduct
LigationProduct(id, type, seq, probability, fragmentIds, isDesired) ==
    [id |-> id, type |-> type, sequence |-> seq, length |-> Len(seq),
     probability |-> probability, fragmentIds |-> fragmentIds, isDesired |-> isDesired]

\* predictLigationProducts with the insert of the reverse product not
\* reverse-complemented
predictLigationProductsInsertAsIs(vector, insert, uuid) ==
    LET vector5Compatible == areEndsCompatible(vector.fivePrimeEnd, insert.threePrimeEnd)
        vector3Compatible == areEndsCompatible(vector.threePrimeEnd, insert.fivePrimeEnd)
        insert5Compatible == areEndsCompatible(vector.fivePrimeEnd, insert.fivePrimeEnd)
        insert3Compatible == areEndsCompatible(vector.threePrimeEnd, insert.threePrimeEnd)
        p1 == IF vector5Compatible /\ vector3Compatible
              THEN << LigationProduct(randomUUID(uuid, 1), "correct",
                                      vector.sequence \o insert.sequence,
                                      ProbabilityCorrect, <<vector.id, insert.id>>, TRUE) >>
              ELSE <<>>
        p2 == IF insert5Compatible /\ insert3Compatible
              THEN Append(p1, LigationProduct(randomUUID(uuid, Len(p1) + 1), "reverse",
                                              vector.sequence \o insert.sequence,
                                              ProbabilityReverse, <<vector.id, insert.id>>,
                                              FALSE))
              ELSE p1
    IN IF areEndsCompatible(vector.fivePrimeEnd, vector.threePrimeEnd)
       THEN Append(p2, LigationProduct(randomUUID(uuid, Len(p2) + 1), "self-ligation",
                                       vector.sequence, ProbabilitySelfLigation,
                                       <<vector.id>>, FALSE))
       ELSE p2

\* predictLigationProducts: the correct, the reverse and the self-ligation
\* product, each pushed under its own condition
predictLigationProducts(vector, insert, uuid) ==
    LET vector5Compatible == areEndsCompatible(vector.fivePrimeEnd, insert.threePrimeEnd)
        vector3Compatible == areEndsCompatible(vector.threePrimeEnd, insert.fivePrimeEnd)
        insert5Compatible == areEndsCompatible(vector.fivePrimeEnd, insert.fivePrimeEnd)
        insert3Compatible == areEndsCompatible(vector.threePrimeEnd, insert.threePrimeEnd)
        p1 == IF vector5Compatible /\ vector3Compatible
              THEN << LigationProduct(randomUUID(uuid, 1), "correct",
                                      vector.sequence \o insert.sequence,
                                      ProbabilityCorrect, <<vector.id, insert.id>>, TRUE) >>
              ELSE <<>>
        p2 == IF insert5Compatible /\ insert3Compatible
              THEN Append(p1, LigationProduct(randomUUID(uuid, Len(p1) + 1), "reverse",
                                              vector.sequence \o ligationReverseComplement(insert.sequence),
                                              ProbabilityReverse, <<vector.id, insert.id>>,
                                              FALSE))
              ELSE p1
    IN IF areEndsCompatible(vector.fivePrimeEnd, vector.threePrimeEnd)
       THEN Append(p2, LigationProduct(randomUUID(uuid, Len(p2) + 1), "self-ligation",
                                       vector.sequence, ProbabilitySelfLigation,
                                       <<vector.id>>, FALSE))
       ELSE p2

(***************************************************************************)
(* State machine: the engine calls on one sequence.                        *)
(***************************************************************************)
NoFragment == [id |-> Undefined]

\* JavaScript's null for an identifier or a message that is not set; a
\* one-element tuple like the messages themselves
Null == <<"null">>

\* the initial state of ligationSlice
LigationInitialState ==
    [products |-> <<>>, selectedProductId |-> Null, loading |-> FALSE, error |-> Null]

\* no insert loaded, no pairing, ligation or protocol request made yet
AdvisorIdle ==
    /\ insertSequence = [sequence |-> <<>>, length |-> 0, topology |-> "linear",
                         features |-> <<>>]
    /\ insertSites = <<>>
    /\ insertFragments = <<>>
    /\ candidates = <<>>
    /\ pairs = <<>>
    /\ selectedFragmentIds = <<>>
    /\ ligation = LigationInitialState
    /\ params = <<>>
    /\ protocol = <<>>
    /\ roundTrip = <<>>

\* a SequenceRecord as the parsers build it: length is the sequence's length
SequenceRecord(s, t, fs) ==
    [sequence |-> s, length |-> Len(s), topology |-> t, features |-> fs]

\* non-empty sequences (validateSequence accepts one base or more)
NonEmptySeqs(S, n) == SeqsUpTo(S, n) \ {<<>>}

Init ==
    /\ \E s \in NonEmptySeqs(SeqBases, MaxSeqLen), t \in {"linear", "circular"} :
          sequence = SequenceRecord(s, t, <<>>)
    /\ enzymeDb \in Catalogs
    /\ sites = << >>
    /\ digestSites = <<>>
    /\ fragments = <<>>
    /\ vectorFragment = NoFragment
    /\ insertFragment = NoFragment
    /\ products = <<>>
    /\ pc = "init"
    /\ AdvisorIdle

\* a caller runs findRestrictionSites on the sequence with its topology
FindRestrictionSites ==
    /\ pc = "init"
    /\ sites' = findRestrictionSites(sequence.sequence, enzymeDb, sequence.topology)
    /\ pc' = "found"
    /\ UNCHANGED <<sequence, enzymeDb, digestSites, fragments,
                   vectorFragment, insertFragment, products, advisorVars>>

\* the enzyme selections of a digest: one enzyme, or two different ones in
\* either order
Selections(db) ==
    {<<db[i]>> : i \in 1..Len(db)}
      \cup {<<db[q[1]], db[q[2]]>> :
               q \in {r \in (1..Len(db)) \X (1..Len(db)) : r[1] # r[2]}}

\* digestSlice.performDigest(enzymeNames): the sites of the selected enzymes,
\* concatenated in selection order, are digested
PerformDigest ==
    /\ pc = "found"
    /\ \E enzymeNames \in Selections(enzymeDb), uuid \in UuidSeeds :
          LET selected == Concat([i \in 1..Len(enzymeNames) |->
                                    IF enzymeNames[i] \in DOMAIN sites
                                    THEN sites[enzymeNames[i]] ELSE <<>>])
          IN /\ digestSites' = selected
             /\ fragments' = simulateDigest(sequence, selected, enzymeDb, uuid)
    /\ pc' = "digested"
    /\ UNCHANGED <<sequence, enzymeDb, sites, vectorFragment, insertFragment, products,
                   advisorVars>>

Next == FindRestrictionSites \/ PerformDigest

Spec == Init /\ [][Next]_vars

(***************************************************************************)
(* simulateDigest on caller-chosen site lists.                             *)
(***************************************************************************)
\* the bases of the sequences digested at caller-chosen sites
DigestBases == {"A", "C"}

\* the enzymes caller-chosen sites name: a 5' cutter and a 3' cutter
SiteEnzymes == {"TaqI", "HhaI"}

\* the catalogs of those digests; under the second one TaqI is unknown
DigestCatalogs == { <<"TaqI", "HhaI", "AluI">>, <<"HhaI">> }

\* a forward-strand RestrictionSite of enzyme e cutting at position p
SiteAt(e, p) == createSite(EnzymePool[e], p - EnzymePool[e].cutPos5, 1)

\* the sites a caller may list for a sequence of length n: any enzyme, any cut
\* position from before the first base to past the last one
SiteChoices(n) == {SiteAt(e, p) : e \in SiteEnzymes, p \in (-1)..(n + 1)}

InitDigest ==
    /\ \E s \in NonEmptySeqs(DigestBases, MaxDigestLen), t \in {"linear", "circular"} :
          sequence = SequenceRecord(s, t, <<>>)
    /\ enzymeDb \in DigestCatalogs
    /\ sites = << >>
    /\ digestSites = <<>>
    /\ fragments = <<>>
    /\ vectorFragment = NoFragment
    /\ insertFragment = NoFragment
    /\ products = <<>>
    /\ pc = "init"
    /\ AdvisorIdle

\* a caller runs simulateDigest on a site list of its own
SimulateDigest ==
    /\ pc = "init"
    /\ \E ss \in SeqsUpTo(SiteChoices(sequence.length), MaxSites), uuid \in UuidSeeds :
          /\ digestSites' = ss
          /\ fragments' = simulateDigest(sequence, ss, enzymeDb, uuid)
    /\ pc' = "digested"
    /\ UNCHANGED <<sequence, enzymeDb, sites, vectorFragment, insertFragment, products,
                   advisorVars>>

NextDigest == SimulateDigest

SpecDigest == InitDigest /\ [][NextDigest]_vars

(***************************************************************************)
(* predictLigationProducts on caller-chosen fragments.                     *)
(***************************************************************************)
\* the overhangs of the sticky ends: a palindrome, a pair of reverse
\* complements, and the plain complement of one of the pair
LigationOverhangs == { <<"C","G">>, <<"A","G">>, <<"C","T">>, <<"T","C">> }

\* the ends of the fragments handed to predictLigationProducts
LigationEnds ==
    {BluntEnd}
      \cup {[type |-> t, overhangSeq |-> o, enzyme |-> "undefined"] :
              t \in {"5'-overhang", "3'-overhang"}, o \in LigationOverhangs}

\* a DigestFragment with the given identifier, sequence and ends
Fragment(id, s, five, three) ==
    [id |-> id, sequence |-> s, length |-> Len(s), start |-> 0, end |-> Len(s),
     fivePrimeEnd |-> five, threePrimeEnd |-> three, features |-> <<>>]

InitLigation ==
    /\ sequence = SequenceRecord(<<"A">>, "linear", <<>>)
    /\ enzymeDb = <<>>
    /\ sites = << >>
    /\ digestSites = <<>>
    /\ fragments = <<>>
    /\ \E five, three \in LigationEnds :
          vectorFragment = Fragment(<<"vector", 1>>, <<"A","C">>, five, three)
    /\ \E five, three \in LigationEnds :
          insertFragment = Fragment(<<"insert", 1>>, <<"G","G","T">>, five, three)
    /\ products = <<>>
    /\ pc = "init"
    /\ AdvisorIdle

\* a caller runs predictLigationProducts on the vector and the insert fragment
PredictLigationProducts ==
    /\ pc # "ligated"
    /\ vectorFragment # NoFragment /\ insertFragment # NoFragment
    /\ \E uuid \in UuidSeeds :
          products' = predictLigationProducts(vectorFragment, insertFragment, uuid)
    /\ pc' = "ligated"
    /\ UNCHANGED <<sequence, enzymeDb, sites, digestSites, fragments,
                   vectorFragment, insertFragment, advisorVars>>

NextLigation == PredictLigationProducts

SpecLigation == InitLigation /\ [][NextLigation]_vars

(***************************************************************************)
(* Properties of simulateDigest.                                           *)
(***************************************************************************)
\* every site of the list names an enzyme of the catalog
AllKnown(ss, db) == \A k \in 1..Len(ss) : InCatalog(db, ss[k].enzyme)

FragmentSequences(fs) == [k \in 1..Len(fs) |-> fs[k].sequence]
FragmentLengths(fs) == [k \in 1..Len(fs) |-> fs[k].length]

\* C1: a linear digest at sites of known enzymes yields fragments whose
\* sequences, concatenated in output order, are the original sequence, and
\* whose lengths sum to sequence.length
C1_LinearReconstructs ==
    (pc = "digested" /\ sequence.topology = "linear" /\ AllKnown(digestSites, enzymeDb))
      => /\ Concat(FragmentSequences(fragments)) = sequence.sequence
         /\ SumSeq(FragmentLengths(fragments)) = sequence.length

\* a linear digest at two known sites inside the sequence, listed in descending
\* position order
C1_Witness ==
    /\ pc = "digested" /\ sequence.topology = "linear"
    /\ Len(digestSites) = 2 /\ AllKnown(digestSites, enzymeDb)
    /\ digestSites[1].position > digestSites[2].position
    /\ digestSites[2].position > 0
    /\ digestSites[1].position < sequence.length
    /\ Len(fragments) = 3

\* the sites of the list lie at different cut positions inside the sequence
DistinctInside(ss, n) ==
    /\ \A k \in 1..Len(ss) : ss[k].position >= 0 /\ ss[k].position < n
    /\ \A k, l \in 1..Len(ss) : k # l => ss[k].position # ss[l].position

\* the longest recognition sequence of the catalog
MaxRecognitionLength(db) ==
    MaxOf([i \in 1..Len(db) |-> Len(EnzymePool[db[i]].recognitionSeq)])

\* C2: a circular digest at a non-empty list of sites of known enzymes, here the
\* sites findRestrictionSites reported for the selected enzymes on a ring at
\* least as long as every recognition sequence, yields as many fragments as
\* sites, and the fragment lengths sum to sequence.length
C2_CircularPartition ==
    (pc = "digested" /\ sequence.topology = "circular" /\ Len(digestSites) > 0
       /\ AllKnown(digestSites, enzymeDb)
       /\ sequence.length >= MaxRecognitionLength(enzymeDb))
      => /\ Len(fragments) = Len(digestSites)
         /\ SumSeq(FragmentLengths(fragments)) = sequence.length

\* C3: simulateDigest on an empty site list returns one fragment: the whole
\* sequence, start 0, end sequence.length, both ends blunt, for either topology
C3_NoSitesWholeSequence ==
    (pc = "digested" /\ digestSites = <<>>)
      => /\ Len(fragments) = 1
         /\ fragments[1].sequence = sequence.sequence
         /\ fragments[1].start = 0
         /\ fragments[1].end = sequence.length
         /\ fragments[1].fivePrimeEnd.type = "blunt"
         /\ fragments[1].threePrimeEnd.type = "blunt"

\* a circular sequence digested with an empty site list
C3_Witness ==
    /\ pc = "digested" /\ digestSites = <<>> /\ sequence.topology = "circular"
    /\ sequence.length > 1
    /\ Len(fragments) = 1

\* a fragment without its random identifier
Described(f) == [sequence |-> f.sequence, start |-> f.start, end |-> f.end,
                 fivePrimeEnd |-> f.fivePrimeEnd, threePrimeEnd |-> f.threePrimeEnd]

\* C7: sites of enzymes absent from the catalog are skipped: the digest returns
\* the fragments (sequence, start, end, both ends) of the digest of the list
\* without those sites; stated for sites at different positions inside the
\* sequence
C7_UnknownEnzymeSkipped ==
    (pc = "digested" /\ DistinctInside(digestSites, sequence.length)) =>
      LET known    == SelectSeq(digestSites, LAMBDA x : InCatalog(enzymeDb, x.enzyme))
          expected == simulateDigest(sequence, known, enzymeDb, "u1")
      IN [k \in 1..Len(fragments) |-> Described(fragments[k])]
           = [k \in 1..Len(expected) |-> Described(expected[k])]

\* the linear half of C7, which the code satisfies
C7_LinearUnknownSkipped ==
    sequence.topology = "linear" => C7_UnknownEnzymeSkipped

(***************************************************************************)
(* Properties of findRestrictionSites.                                     *)
(***************************************************************************)
\* Watson-Crick pairing of the four bases
WatsonCrick == [b \in {"A", "C", "G", "T"} |->
                  CASE b = "A" -> "T" [] b = "T" -> "A" [] b = "C" -> "G" [] b = "G" -> "C"]

\* the opposite strand of a string over A, C, G, T, read 5' to 3'
OppositeStrand(s) == [i \in 1..Len(s) |-> WatsonCrick[s[Len(s) + 1 - i]]]

\* pat occurs in the linear string s at 0-based start index i
OccursLinear(s, pat, i) ==
    /\ i >= 0 /\ i + Len(pat) <= Len(s)
    /\ \A k \in 1..Len(pat) : s[i + k] = pat[k]

\* pat occurs on the ring s at 0-based start index i, passing the origin at
\* most once
OccursCircular(s, pat, i) ==
    /\ i >= 0 /\ i < Len(s) /\ i + Len(pat) <= 2 * Len(s)
    /\ \A k \in 1..Len(pat) : s[((i + k - 1) % Len(s)) + 1] = pat[k]

OccursAt(s, pat, i, topology) ==
    IF topology = "circular" THEN OccursCircular(s, pat, i) ELSE OccursLinear(s, pat, i)

\* the number of sites of the list on that strand at that recognition start
SiteCount(ss, strand, i) ==
    Cardinality({k \in 1..Len(ss) : ss[k].strand = strand /\ ss[k].recognitionStart = i})

Palindromic(name) ==
    EnzymePool[name].recognitionSeq = OppositeStrand(EnzymePool[name].recognitionSeq)

\* C4: for an enzyme whose recognition sequence is its own reverse complement,
\* findRestrictionSites returns exactly one site per start index at which the
\* recognition sequence occurs and nothing else, in either topology
C4_PalindromeOncePerOccurrence ==
    pc # "init" =>
      \A name \in DOMAIN sites :
        Palindromic(name) =>
          /\ \A i \in 0..(sequence.length - 1) :
                Cardinality({k \in 1..Len(sites[name]) :
                               sites[name][k].recognitionStart = i})
                  = IF OccursAt(sequence.sequence, EnzymePool[name].recognitionSeq, i,
                                sequence.topology)
                    THEN 1 ELSE 0
          /\ \A k \in 1..Len(sites[name]) :
                sites[name][k].recognitionStart \in 0..(sequence.length - 1)

\* a palindromic enzyme with two sites, in a linear sequence
C4_Witness ==
    /\ pc = "found" /\ sequence.topology = "linear"
    /\ \E name \in DOMAIN sites : Palindromic(name) /\ Len(sites[name]) = 2

\* the description of a site the claims speak of
SiteTriple(x) == <<x.strand, x.recognitionStart, x.position>>

\* the sites C5 expects of an enzyme in a linear sequence
ExpectedLinearSites(s, e) ==
    {<<1, i, i + e.cutPos5>> : i \in {j \in 0..Len(s) : OccursLinear(s, e.recognitionSeq, j)}}
      \cup (IF e.recognitionSeq = OppositeStrand(e.recognitionSeq) THEN {}
            ELSE {<<-1, i, i + e.cutPos3>> :
                    i \in {j \in 0..Len(s) :
                             OccursLinear(s, OppositeStrand(e.recognitionSeq), j)}})

\* C5: in a linear sequence the sites of every catalog enzyme are one forward
\* site per occurrence of the recognition sequence (recognitionStart i, position
\* i + cutPos5) and, unless the recognition sequence is its own reverse
\* complement, one reverse site per occurrence of the reverse complement
\* (recognitionStart j, position j + cutPos3); every catalog enzyme has an entry,
\* empty when nothing occurs
C5_LinearSitesExact ==
    (pc # "init" /\ sequence.topology = "linear") =>
      /\ DOMAIN sites = Range(enzymeDb)
      /\ \A name \in DOMAIN sites :
            /\ {SiteTriple(sites[name][k]) : k \in 1..Len(sites[name])}
                 = ExpectedLinearSites(sequence.sequence, EnzymePool[name])
            /\ Len(sites[name])
                 = Cardinality(ExpectedLinearSites(sequence.sequence, EnzymePool[name]))
            /\ \A k \in 1..Len(sites[name]) : sites[name][k].enzyme = name

\* a linear sequence with overlapping forward sites of one enzyme, a
\* reverse-strand site of another, and an enzyme without any site
C5_Witness ==
    /\ pc = "found" /\ sequence.topology = "linear"
    /\ \E name \in DOMAIN sites :
          \E k, l \in 1..Len(sites[name]) :
             /\ sites[name][k].strand = 1 /\ sites[name][l].strand = 1
             /\ sites[name][k].recognitionStart < sites[name][l].recognitionStart
             /\ sites[name][l].recognitionStart < sites[name][k].recognitionEnd
    /\ \E name \in DOMAIN sites : sites[name] = <<>>

\* a linear sequence with a reverse-strand site
C5_ReverseWitness ==
    /\ pc = "found" /\ sequence.topology = "linear"
    /\ \E name \in DOMAIN sites : \E k \in 1..Len(sites[name]) : sites[name][k].strand = -1

\* the recognition sequence read on that strand
StrandPattern(e, strand) ==
    IF strand = 1 THEN e.recognitionSeq ELSE OppositeStrand(e.recognitionSeq)

\* the strands findSitesForEnzyme reports sites on
Strands(e) == IF e.recognitionSeq = OppositeStrand(e.recognitionSeq) THEN {1} ELSE {1, -1}

\* the occurrence at start index i of a pattern of length m passes the origin
Straddles(i, m, n) == i < n /\ i + m > n

\* C6: on a circular sequence every reported site starts inside the sequence,
\* no start index is reported twice on a strand, and a recognition site that
\* straddles the origin is reported exactly once
C6_OriginStraddlingOnce ==
    (pc # "init" /\ sequence.topology = "circular") =>
      \A name \in DOMAIN sites :
        /\ \A k \in 1..Len(sites[name]) :
              sites[name][k].recognitionStart >= 0
                /\ sites[name][k].recognitionStart < sequence.length
        /\ \A strand \in Strands(EnzymePool[name]) :
              \A i \in 0..(sequence.length - 1) :
                 /\ SiteCount(sites[name], strand, i) <= 1
                 /\ (Straddles(i, Len(EnzymePool[name].recognitionSeq), sequence.length)
                       /\ OccursCircular(sequence.sequence,
                                         StrandPattern(EnzymePool[name], strand), i))
                      => SiteCount(sites[name], strand, i) = 1

\* a circular sequence with a site straddling the origin and a site inside
C6_Witness ==
    /\ pc = "found" /\ sequence.topology = "circular"
    /\ \E name \in DOMAIN sites :
         \E k, l \in 1..Len(sites[name]) :
            /\ sites[name][k].recognitionEnd > sequence.length
            /\ sites[name][l].recognitionEnd <= sequence.length

(***************************************************************************)
(* Properties of areEndsCompatible and predictLigationProducts.            *)
(***************************************************************************)
Sticky(end) == end.type \in {"5'-overhang", "3'-overhang"}

\* the end-compatibility rule: both blunt, or both sticky with opposite overhang
\* types and a's overhang the reverse complement of b's
CompatibleRule(a, b) ==
    \/ a.type = "blunt" /\ b.type = "blunt"
    \/ /\ Sticky(a) /\ Sticky(b) /\ a.type # b.type
       /\ a.overhangSeq = OppositeStrand(b.overhangSeq)

\* the four ends of the two fragments
EndsInPlay ==
    {vectorFragment.fivePrimeEnd, vectorFragment.threePrimeEnd,
     insertFragment.fivePrimeEnd, insertFragment.threePrimeEnd}

\* C8: areEndsCompatible(a, b) is true exactly when both ends are blunt, or both
\* are sticky with opposite types and a's overhang is the reverse complement of
\* b's; it is false when exactly one end is blunt and when both sticky ends
\* have the same type
C8_EndCompatibilityRule ==
    \A a, b \in EndsInPlay :
       /\ areEndsCompatible(a, b) <=> CompatibleRule(a, b)
       /\ ((a.type = "blunt") # (b.type = "blunt")) => ~areEndsCompatible(a, b)
       /\ (Sticky(a) /\ a.type = b.type) => ~areEndsCompatible(a, b)

\* a ligation in which the vector's 5' end pairs with the insert's 3' end
\* through overhangs that are reverse complements and not equal, while the
\* vector's own ends have the same overhang type
C8_Witness ==
    /\ pc = "ligated"
    /\ Sticky(vectorFragment.fivePrimeEnd) /\ Sticky(insertFragment.threePrimeEnd)
    /\ vectorFragment.fivePrimeEnd.type # insertFragment.threePrimeEnd.type
    /\ vectorFragment.fivePrimeEnd.overhangSeq
         = OppositeStrand(insertFragment.threePrimeEnd.overhangSeq)
    /\ vectorFragment.fivePrimeEnd.overhangSeq # insertFragment.threePrimeEnd.overhangSeq
    /\ vectorFragment.threePrimeEnd = vectorFragment.fivePrimeEnd
    /\ areEndsCompatible(vectorFragment.fivePrimeEnd, insertFragment.threePrimeEnd)
    /\ ~areEndsCompatible(vectorFragment.fivePrimeEnd, vectorFragment.threePrimeEnd)

\* what the claims say of a product
ProductSummary(p) == [type |-> p.type, sequence |-> p.sequence,
                      probability |-> p.probability]

\* the products C9 expects of a vector and an insert
ExpectedProducts(v, i) ==
    (IF CompatibleRule(v.fivePrimeEnd, i.threePrimeEnd)
          /\ CompatibleRule(v.threePrimeEnd, i.fivePrimeEnd)
     THEN {[type |-> "correct", sequence |-> v.sequence \o i.sequence,
            probability |-> 60]}
     ELSE {})
    \cup
    (IF CompatibleRule(v.fivePrimeEnd, i.fivePrimeEnd)
          /\ CompatibleRule(v.threePrimeEnd, i.threePrimeEnd)
     THEN {[type |-> "reverse", sequence |-> v.sequence \o OppositeStrand(i.sequence),
            probability |-> 30]}
     ELSE {})
    \cup
    (IF CompatibleRule(v.fivePrimeEnd, v.threePrimeEnd)
     THEN {[type |-> "self-ligation", sequence |-> v.sequence, probability |-> 10]}
     ELSE {})

BluntVectorStickyInsert ==
    /\ vectorFragment.fivePrimeEnd.type = "blunt"
    /\ vectorFragment.threePrimeEnd.type = "blunt"
    /\ Sticky(insertFragment.fivePrimeEnd)
    /\ Sticky(insertFragment.threePrimeEnd)

\* C10 as claimed: a blunt-only vector against a sticky insert yields no product
C10_BluntVectorNoProducts ==
    (pc = "ligated" /\ BluntVectorStickyInsert) => products = <<>>

\* C10 as amended: a blunt-only vector against a sticky insert yields no correct
\* and no reverse product; the one product returned is the self-ligation of the
\* vector, with probability 0.1
C10_BluntVectorOnlySelfLigation ==
    (pc = "ligated" /\ BluntVectorStickyInsert) =>
      /\ Len(products) = 1
      /\ products[1].type = "self-ligation"
      /\ products[1].sequence = vectorFragment.sequence
      /\ products[1].probability = 10
      /\ ~products[1].isDesired

\* a blunt-only vector ligated with an insert whose ends are sticky and would
\* pair with each other
C10_Witness ==
    /\ pc = "ligated" /\ BluntVectorStickyInsert
    /\ insertFragment.fivePrimeEnd.type # insertFragment.threePrimeEnd.type
    /\ insertFragment.fivePrimeEnd.overhangSeq
         = OppositeStrand(insertFragment.threePrimeEnd.overhangSeq)
    /\ Len(products) = 1

(***************************************************************************)
(* The documented cloning workflow: digest the vector, digest the insert   *)
(* with the same enzyme, ligate a vector fragment with an insert fragment. *)
(***************************************************************************)
\* longest flank around the recognition sequences of the workflow's sequences
MaxFlank == 1

\* the flanks around the recognition sequences
WorkflowFlanks == SeqsUpTo({"A", "C"}, MaxFlank)

\* the enzymes whose recognition sequence the workflow's sequences carry
WorkflowEnzymes == {"EcoRI", "TaqI", "HhaI"}

\* the catalog of the workflow
WorkflowCatalog == <<"EcoRI", "TaqI", "AciI", "HhaI", "AluI">>

\* a circular vector carrying the recognition sequence once between flanks, a
\* linear insert carrying it twice
InitWorkflow ==
    /\ \E e \in WorkflowEnzymes, p, q, l, m, r \in WorkflowFlanks :
          LET site == EnzymePool[e].recognitionSeq
          IN /\ sequence = SequenceRecord(p \o site \o q, "circular", <<>>)
             /\ insertSequence = SequenceRecord(l \o site \o m \o site \o r, "linear", <<>>)
    /\ enzymeDb = WorkflowCatalog
    /\ sites = << >>
    /\ digestSites = <<>>
    /\ fragments = <<>>
    /\ vectorFragment = NoFragment
    /\ insertFragment = NoFragment
    /\ products = <<>>
    /\ pc = "init"
    /\ insertSites = <<>>
    /\ insertFragments = <<>>
    /\ candidates = <<>>
    /\ pairs = <<>>
    /\ selectedFragmentIds = <<>>
    /\ ligation = LigationInitialState
    /\ params = <<>>
    /\ protocol = <<>>
    /\ roundTrip = <<>>

\* steps 3 and 4: the vector is analysed and digested with one enzyme that
\* cuts it
DigestVector ==
    /\ pc = "init"
    /\ \E name \in Range(enzymeDb), uuid \in UuidSeeds :
          LET found == findRestrictionSites(sequence.sequence, enzymeDb, sequence.topology)
          IN /\ Len(found[name]) > 0
             /\ sites' = found
             /\ digestSites' = found[name]
             /\ fragments' = simulateDigest(sequence, found[name], enzymeDb, uuid)
    /\ pc' = "vectorDigested"
    /\ UNCHANGED <<sequence, enzymeDb, vectorFragment, insertFragment, products, advisorVars>>

\* steps 5 and 6: the insert is analysed and digested with the enzyme the
\* vector was digested with
DigestInsert ==
    /\ pc = "vectorDigested"
    /\ \E uuid \in UuidSeeds :
          LET found == findRestrictionSites(insertSequence.sequence, enzymeDb,
                                            insertSequence.topology)
              name  == digestSites[1].enzyme
          IN /\ insertSites' = found[name]
             /\ insertFragments' = simulateDigest(insertSequence, found[name], enzymeDb, uuid)
    /\ pc' = "insertDigested"
    /\ UNCHANGED <<sequence, enzymeDb, sites, digestSites, fragments, vectorFragment,
                   insertFragment, products, insertSequence, candidates, pairs,
                   selectedFragmentIds, ligation, params, protocol, roundTrip>>

\* step 7: a fragment of the vector and a fragment of the insert are handed to
\* predictLigationProducts
SimulateLigation ==
    /\ pc = "insertDigested"
    /\ \E v \in 1..Len(fragments), i \in 1..Len(insertFragments), uuid \in UuidSeeds :
          /\ vectorFragment' = fragments[v]
          /\ insertFragment' = insertFragments[i]
          /\ products' = predictLigationProducts(fragments[v], insertFragments[i], uuid)
    /\ pc' = "ligated"
    /\ UNCHANGED <<sequence, enzymeDb, sites, digestSites, fragments, advisorVars>>

NextWorkflow == DigestVector \/ DigestInsert \/ SimulateLigation

SpecWorkflow == InitWorkflow /\ [][NextWorkflow]_vars

\* the enzyme leaves sticky ends whose overhang is its own reverse complement
StickyPalindromicOverhang(e) ==
    /\ e.overhangType # "blunt"
    /\ e.overhangSeq # <<>>
    /\ e.overhangSeq = OppositeStrand(e.overhangSeq)

\* the workflow's case: the circular vector has one site of the enzyme, the
\* linear insert two, and the ligation is of the vector's fragment with the
\* insert's fragment between the two sites
WorkflowCase ==
    /\ pc = "ligated"
    /\ sequence.topology = "circular" /\ insertSequence.topology = "linear"
    /\ Len(digestSites) = 1 /\ Len(insertSites) = 2
    /\ StickyPalindromicOverhang(EnzymePool[digestSites[1].enzyme])
    /\ vectorFragment = fragments[1]
    /\ insertFragment = insertFragments[2]

\* C11: in the documented workflow (circular vector with one site of a sticky
\* enzyme with a palindromic overhang, linear insert with two sites, both
\* digested with that enzyme) predictLigationProducts(vector fragment, insert
\* fragment between the sites) includes a product of type 'correct' with
\* probability 0.6 and isDesired
C11_WorkflowCorrectProduct ==
    WorkflowCase =>
      \E k \in 1..Len(products) :
         /\ products[k].type = "correct"
         /\ products[k].probability = ProbabilityCorrect
         /\ products[k].isDesired

\* what the code returns in the workflow's case: the reverse and the
\* self-ligation product only
C11_WorkflowReverseAndSelf ==
    WorkflowCase =>
      [k \in 1..Len(products) |-> products[k].type] = <<"reverse", "self-ligation">>

(***************************************************************************)
(* calculateLigationProtocol (analysis/ligation.ts).  A JavaScript number  *)
(* is modelled as an exact fraction num/den with den > 0; the rounding of  *)
(* binary floating point is not modelled.                                  *)
(***************************************************************************)
RECURSIVE Gcd(_, _)
\* the greatest common divisor of a >= 0 and b >= 0
Gcd(a, b) == IF b = 0 THEN a ELSE Gcd(b, a % b)

\* the fraction n/d (d > 0) in lowest terms
Rat(n, d) ==
    LET g == Gcd(IF n < 0 THEN -n ELSE n, d)
    IN [num |-> n \div g, den |-> d \div g]

\* the number n
RatOf(n) == [num |-> n, den |-> 1]

\* a * b
RatMul(a, b) == Rat(a.num * b.num, a.den * b.den)

\* a / b for b # 0
RatDiv(a, b) ==
    IF b.num > 0 THEN Rat(a.num * b.den, a.den * b.num)
    ELSE Rat(-(a.num * b.den), a.den * (-b.num))

\* a - b
RatSub(a, b) == Rat(a.num * b.den - b.num * a.den, a.den * b.den)

\* a < 0
RatNegative(a) == a.num < 0

\* parseFloat(x.toFixed(2)), in hundredths: the nearest multiple of 0.01, the
\* one of larger magnitude when two are as near
toFixed2(a) ==
    LET magnitude == IF a.num < 0 THEN -a.num ELSE a.num
        rounded   == (2 * 100 * magnitude + a.den) \div (2 * a.den)
    IN IF a.num < 0 THEN -rounded ELSE rounded

\* const insertAmount (ng): vector pmol times the molar ratio, back to mass
insertAmount(params_) ==
    LET vectorMW   == RatOf(params_.vectorFragment.length * 650)
        insertMW   == RatOf(params_.insertFragment.length * 650)
        vectorPmol == RatMul(RatDiv(RatOf(50), vectorMW), RatOf(1000))
        insertPmol == RatMul(vectorPmol, RatOf(params_.molarRatio))
    IN RatDiv(RatMul(insertPmol, insertMW), RatOf(1000))

\* const vectorVolume = vectorAmount / vectorConcentration
vectorVolume(params_) == RatDiv(RatOf(50), RatOf(params_.vectorConcentration))

\* const insertVolume = insertAmount / insertConcentration, the insert taken to
\* have the vector's concentration
insertVolume(params_) == RatDiv(insertAmount(params_), RatOf(params_.vectorConcentration))

\* const bufferVolume = reactionVolume * 0.1
bufferVolume(params_) == RatMul(RatOf(params_.reactionVolume), [num |-> 1, den |-> 10])

\* const waterVolume = reactionVolume - vectorVolume - insertVolume - ligaseVolume
\*                     - bufferVolume
waterVolume(params_) ==
    RatSub(RatSub(RatSub(RatSub(RatOf(params_.reactionVolume), vectorVolume(params_)),
                         insertVolume(params_)),
                  RatOf(1)),
           bufferVolume(params_))

\* calculateLigationProtocol: the LigationProtocol, its rounded fields in
\* hundredths; no statement of the function throws
calculateLigationProtocol(params_) ==
    [vectorAmount |-> 50,
     vectorVolume |-> toFixed2(vectorVolume(params_)),
     insertAmount |-> toFixed2(insertAmount(params_)),
     insertVolume |-> toFixed2(insertVolume(params_)),
     ligaseVolume |-> 1,
     bufferVolume |-> toFixed2(bufferVolume(params_)),
     waterVolume  |-> toFixed2(waterVolume(params_)),
     totalVolume  |-> params_.reactionVolume,
     incubation   |-> "Room temperature for 1 hour or 16C overnight"]

\* a fragment of n base pairs with blunt ends
FragmentOfLength(id, n) == Fragment(id, [k \in 1..n |-> "A"], BluntEnd, BluntEnd)

\* the LigationParameters of a request: fragments of 1..MaxDigestLen base
\* pairs, molar ratio 1:1 or 3:1, vector concentration in ng/uL, reaction
\* volume in uL
InitProtocol ==
    /\ \E v, i \in 1..MaxDigestLen, ratio \in {1, 3}, concentration \in {10, 25, 50},
          volume \in {10, 20} :
          /\ vectorFragment = FragmentOfLength(<<"vector", 1>>, v)
          /\ insertFragment = FragmentOfLength(<<"insert", 1>>, i)
          /\ params = [vectorFragment      |-> vectorFragment,
                       insertFragment      |-> insertFragment,
                       molarRatio          |-> ratio,
                       vectorConcentration |-> concentration,
                       reactionVolume      |-> volume]
    /\ sequence = SequenceRecord(<<"A">>, "linear", <<>>)
    /\ enzymeDb = <<>>
    /\ sites = << >>
    /\ digestSites = <<>>
    /\ fragments = <<>>
    /\ products = <<>>
    /\ pc = "init"
    /\ insertSequence = SequenceRecord(<<>>, "linear", <<>>)
    /\ insertSites = <<>>
    /\ insertFragments = <<>>
    /\ candidates = <<>>
    /\ pairs = <<>>
    /\ selectedFragmentIds = <<>>
    /\ ligation = LigationInitialState
    /\ protocol = <<>>
    /\ roundTrip = <<>>

\* a caller runs calculateLigationProtocol on the parameters
CalculateLigationProtocol ==
    /\ pc = "init"
    /\ protocol' = calculateLigationProtocol(params)
    /\ pc' = "protocol"
    /\ UNCHANGED <<sequence, enzymeDb, sites, digestSites, fragments, vectorFragment,
                   insertFragment, products, insertSequence, insertSites,
                   insertFragments, candidates, pairs, selectedFragmentIds, ligation,
                   params, roundTrip>>

NextProtocol == CalculateLigationProtocol

SpecProtocol == InitProtocol /\ [][NextProtocol]_vars

\* the call returned a LigationProtocol
ReturnedProtocol == pc = "protocol" /\ "waterVolume" \in DOMAIN protocol

\* C12: calculateLigationProtocol fails, and returns no protocol, whenever
\* reactionVolume - vectorVolume - insertVolume - 1 - 10% of reactionVolume is
\* negative; it never returns a protocol with a negative waterVolume
C12_NegativeWaterFails ==
    pc = "protocol" =>
      /\ RatNegative(waterVolume(params)) => ~ReturnedProtocol
      /\ ReturnedProtocol => protocol.waterVolume >= 0

\* what the code does: every call returns a protocol, whose waterVolume is the
\* rounded remainder whatever its sign
C12_AlwaysReturnsRemainder ==
    pc = "protocol" =>
      /\ ReturnedProtocol
      /\ protocol.waterVolume = toFixed2(waterVolume(params))
      /\ RatNegative(waterVolume(params)) => protocol.waterVolume <= 0

(***************************************************************************)
(* digestSlice and ligationSlice (web/src/store/slices): the selection of  *)
(* fragments and the predictLigation request.                              *)
(***************************************************************************)
\* Array.prototype.includes
includes(xs, x) == \E k \in 1..Len(xs) : xs[k] = x

\* Array.prototype.find on the fragments by id: the indices of the matches
findById(fs, id) == {k \in 1..Len(fs) : fs[k].id = id}

\* the messages of the two errors predictLigation throws
SelectExactlyTwo == <<"Select exactly 2 fragments (vector and insert)">>
FragmentsNotFound == <<"Selected fragments not found">>

\* one sequence loaded, nothing digested, nothing selected, no ligation request
InitSlice ==
    /\ sequence = SequenceRecord(<<"A", "C", "A">>, "linear", <<>>)
    /\ enzymeDb = <<"TaqI", "HhaI", "AluI">>
    /\ sites = << >>
    /\ digestSites = <<>>
    /\ fragments = <<>>
    /\ vectorFragment = NoFragment
    /\ insertFragment = NoFragment
    /\ products = <<>>
    /\ pc = "init"
    /\ AdvisorIdle

\* digestSlice.selectFragment(id)
SelectFragment ==
    /\ pc = "digested"
    /\ \E k \in 1..Len(fragments) :
          selectedFragmentIds' =
             IF ~includes(selectedFragmentIds, fragments[k].id)
             THEN Append(selectedFragmentIds, fragments[k].id)
             ELSE selectedFragmentIds
    /\ UNCHANGED <<sequence, enzymeDb, sites, digestSites, fragments, vectorFragment,
                   insertFragment, products, pc, insertSequence, insertSites,
                   insertFragments, candidates, pairs, ligation, params, protocol,
                   roundTrip>>

\* digestSlice.deselectFragment(id)
DeselectFragment ==
    /\ pc = "digested"
    /\ \E k \in 1..Len(fragments) :
          selectedFragmentIds' =
             SelectSeq(selectedFragmentIds, LAMBDA id : id # fragments[k].id)
    /\ UNCHANGED <<sequence, enzymeDb, sites, digestSites, fragments, vectorFragment,
                   insertFragment, products, pc, insertSequence, insertSites,
                   insertFragments, candidates, pairs, ligation, params, protocol,
                   roundTrip>>

\* digestSlice.clearSelectedFragments()
ClearSelectedFragments ==
    /\ pc = "digested"
    /\ selectedFragmentIds' = <<>>
    /\ UNCHANGED <<sequence, enzymeDb, sites, digestSites, fragments, vectorFragment,
                   insertFragment, products, pc, insertSequence, insertSites,
                   insertFragments, candidates, pairs, ligation, params, protocol,
                   roundTrip>>

\* the predictLigation thunk with its reducers: pending sets loading; a thrown
\* error is rejected (error message set, loading reset, products untouched); a
\* result is fulfilled (products replaced, loading reset, error cleared)
PredictLigation ==
    /\ pc = "digested"
    /\ LET pending == [ligation EXCEPT !.loading = TRUE]
       IN IF Len(selectedFragmentIds) # 2
          THEN ligation' = [pending EXCEPT !.error = SelectExactlyTwo, !.loading = FALSE]
          ELSE LET vectors == findById(fragments, selectedFragmentIds[1])
                   inserts == findById(fragments, selectedFragmentIds[2])
               IN IF vectors = {} \/ inserts = {}
                  THEN ligation' = [pending EXCEPT !.error = FragmentsNotFound,
                                                   !.loading = FALSE]
                  ELSE \E uuid \in UuidSeeds :
                          LET v == fragments[CHOOSE k \in vectors : \A l \in vectors : k <= l]
                              i == fragments[CHOOSE k \in inserts : \A l \in inserts : k <= l]
                          IN ligation' = [pending EXCEPT
                                            !.products = predictLigationProducts(v, i, uuid),
                                            !.loading = FALSE,
                                            !.error = Null]
    /\ UNCHANGED <<sequence, enzymeDb, sites, digestSites, fragments, vectorFragment,
                   insertFragment, products, pc, insertSequence, insertSites,
                   insertFragments, candidates, pairs, selectedFragmentIds, params,
                   protocol, roundTrip>>

\* ligationSlice.selectProduct(id)
SelectProduct ==
    /\ pc = "digested"
    /\ \E k \in 1..Len(ligation.products) :
          ligation' = [ligation EXCEPT !.selectedProductId = ligation.products[k].id]
    /\ UNCHANGED <<sequence, enzymeDb, sites, digestSites, fragments, vectorFragment,
                   insertFragment, products, pc, insertSequence, insertSites,
                   insertFragments, candidates, pairs, selectedFragmentIds, params,
                   protocol, roundTrip>>

\* ligationSlice.clearLigation()
ClearLigation ==
    /\ pc = "digested"
    /\ ligation' = [ligation EXCEPT !.products = <<>>, !.selectedProductId = Null,
                                    !.error = Null]
    /\ UNCHANGED <<sequence, enzymeDb, sites, digestSites, fragments, vectorFragment,
                   insertFragment, products, pc, insertSequence, insertSites,
                   insertFragments, candidates, pairs, selectedFragmentIds, params,
                   protocol, roundTrip>>

NextSlice ==
    \/ SimulateDigest
    \/ SelectFragment
    \/ DeselectFragment
    \/ ClearSelectedFragments
    \/ PredictLigation
    \/ SelectProduct
    \/ ClearLigation

SpecSlice == InitSlice /\ [][NextSlice]_vars

\* C13: a ligation request made when the number of selected fragments is not
\* two is reported as an error, and after it the ligation state holds no
\* products: neither a partial result nor the products of an earlier request
C13_RejectedRequestHoldsNoProducts ==
    [][(PredictLigation /\ Len(selectedFragmentIds) # 2)
          => (ligation'.error = SelectExactlyTwo /\ ligation'.products = <<>>)]_vars

\* what the code does: the rejected request is reported and leaves the
\* products as they were
C13_RejectedRequestKeepsProducts ==
    [][(PredictLigation /\ Len(selectedFragmentIds) # 2)
          => (ligation'.error = SelectExactlyTwo /\ ~ligation'.loading
                /\ ligation'.products = ligation.products)]_vars

(***************************************************************************)
(* enzymes/pairing.ts.  Scores are in hundredths: 50 is the score 0.5.     *)
(***************************************************************************)
\* String.prototype.toLowerCase on the buffer names in use
toLowerCase ==
    [b \in {"CutSmart", "cutsmart", "EcoRI Buffer", "NEBuffer 2", "NEBuffer 3"} |->
       CASE b = "CutSmart" -> "cutsmart"
         [] b = "cutsmart" -> "cutsmart"
         [] b = "EcoRI Buffer" -> "ecori buffer"
         [] b = "NEBuffer 2" -> "nebuffer 2"
         [] b = "NEBuffer 3" -> "nebuffer 3"]

\* hasCommonBuffer: some buffer of the second list is, in lower case, in the
\* set of the lower-cased buffers of the first
hasCommonBuffer(buffers1, buffers2) ==
    LET set1 == {toLowerCase[buffers1[k]] : k \in 1..Len(buffers1)}
    IN \E k \in 1..Len(buffers2) : toLowerCase[buffers2[k]] \in set1

\* the truthiness of the optional number heatInactivation: set and not 0
truthy(heatInactivation) == heatInactivation # <<>> /\ heatInactivation[1] # 0

\* the overhang step counting only the bonus for different overhangs
overhangTermBonusOnly(enzyme1, enzyme2) ==
    IF enzyme1.overhangSeq # enzyme2.overhangSeq THEN 20 ELSE 0

\* the overhang step of evaluateEnzymePair: +0.2 for different overhang
\* sequences, -0.2 for equal ones
overhangTerm(enzyme1, enzyme2) ==
    IF enzyme1.overhangSeq # enzyme2.overhangSeq THEN 20 ELSE -20

\* the buffer step with its condition inverted
bufferTermInverted(enzyme1, enzyme2) ==
    IF ~hasCommonBuffer(enzyme1.buffers, enzyme2.buffers) THEN 15 ELSE -10

\* the buffer step: +0.15 for a common buffer, -0.1 without one
bufferTerm(enzyme1, enzyme2) ==
    IF hasCommonBuffer(enzyme1.buffers, enzyme2.buffers) THEN 15 ELSE -10

\* the star-activity step of one enzyme: -0.1
starTerm(enzyme) == IF enzyme.starActivity THEN -10 ELSE 0

\* the heat-inactivation step: +0.1 when both values are truthy
heatTerm(enzyme1, enzyme2) ==
    IF truthy(enzyme1.heatInactivation) /\ truthy(enzyme2.heatInactivation) THEN 10 ELSE 0

\* the overhang-type step: +0.05 when both enzymes leave 5' overhangs
overhangTypeTerm(enzyme1, enzyme2) ==
    IF enzyme1.overhangType = "5'" /\ enzyme2.overhangType = "5'" THEN 5 ELSE 0

\* the score kept on the scale of 0 to 100 points
pairScorePointScale(enzyme1, enzyme2) ==
    Max(0, Min(100 * 100,
               100 * (50 + overhangTerm(enzyme1, enzyme2) + bufferTerm(enzyme1, enzyme2)
                         + starTerm(enzyme1) + starTerm(enzyme2)
                         + heatTerm(enzyme1, enzyme2)
                         + overhangTypeTerm(enzyme1, enzyme2))))

\* the score of evaluateEnzymePair: 0.5 and the steps, clamped to [0, 1]
pairScore(enzyme1, enzyme2) ==
    Max(0, Min(100,
               50 + overhangTerm(enzyme1, enzyme2) + bufferTerm(enzyme1, enzyme2)
                  + starTerm(enzyme1) + starTerm(enzyme2)
                  + heatTerm(enzyme1, enzyme2)
                  + overhangTypeTerm(enzyme1, enzyme2)))

\* evaluateEnzymePair: the EnzymePair of two enzymes; a message is a tuple of
\* its parts
evaluateEnzymePair(enzyme1, enzyme2) ==
    LET differentOverhangs == enzyme1.overhangSeq # enzyme2.overhangSeq
        bufferCompatible   == hasCommonBuffer(enzyme1.buffers, enzyme2.buffers)
        bothHeat == truthy(enzyme1.heatInactivation) /\ truthy(enzyme2.heatInactivation)
        bothFive == enzyme1.overhangType = "5'" /\ enzyme2.overhangType = "5'"
    IN [enzyme1 |-> enzyme1.name,
        enzyme2 |-> enzyme2.name,
        score   |-> pairScore(enzyme1, enzyme2),
        reasons |->
           (IF differentOverhangs
            THEN << <<"Different overhangs prevent self-ligation">> >> ELSE <<>>)
           \o (IF bufferCompatible THEN << <<"Enzymes work in the same buffer">> >> ELSE <<>>)
           \o (IF bothHeat THEN << <<"Both enzymes can be heat inactivated">> >> ELSE <<>>)
           \o (IF bothFive
               THEN << <<"Both create 5' overhangs (efficient ligation)">> >> ELSE <<>>),
        warnings |->
           (IF differentOverhangs THEN <<>>
            ELSE << <<"Same overhangs may cause unwanted ligation products">> >>)
           \o (IF bufferCompatible THEN <<>>
               ELSE << <<"Enzymes require different buffers (sequential digestion needed)">> >>)
           \o (IF enzyme1.starActivity
               THEN << <<enzyme1.name, " has star activity risk">> >> ELSE <<>>)
           \o (IF enzyme2.starActivity
               THEN << <<enzyme2.name, " has star activity risk">> >> ELSE <<>>)
           \o (IF enzyme1.methylationSensitive
               THEN << <<enzyme1.name, " is sensitive to Dam/Dcm methylation">> >> ELSE <<>>)
           \o (IF enzyme2.methylationSensitive
               THEN << <<enzyme2.name, " is sensitive to Dam/Dcm methylation">> >> ELSE <<>>),
        bufferCompatible |-> bufferCompatible]

\* countEnzymeSites: the number of sites findRestrictionSites reports per enzyme
countEnzymeSites(seq, db, topology) ==
    LET found == findRestrictionSites(seq, db, topology)
    IN [name \in DOMAIN found |-> Len(found[name])]

\* the sort of the pairs left out: the pairs in enumeration order
sortByScoreUnsorted(ps) == ps

RECURSIVE sortByScore(_)
\* pairs.sort((a, b) => b.score - a.score): a stable sort, highest score first
sortByScore(ps) ==
    IF ps = <<>> THEN <<>>
    ELSE LET front  == sortByScore(SubSeq(ps, 1, Len(ps) - 1))
             x      == ps[Len(ps)]
             before == SelectSeq(front, LAMBDA y : y.score >= x.score)
             after  == SelectSeq(front, LAMBDA y : y.score < x.score)
         IN before \o <<x>> \o after

RECURSIVE enumeratePairs(_, _, _)
\* the nested loops of suggestEnzymePairs from (i, j) on (0-based, j > i)
enumeratePairs(singleCutters, i, j) ==
    IF i >= Len(singleCutters) THEN <<>>
    ELSE IF j >= Len(singleCutters) THEN enumeratePairs(singleCutters, i + 1, i + 2)
    ELSE <<evaluateEnzymePair(EnzymePool[singleCutters[i + 1]],
                              EnzymePool[singleCutters[j + 1]])>>
         \o enumeratePairs(singleCutters, i, j + 1)

\* suggestEnzymePairs counting the vector's sites as if the vector were linear
suggestEnzymePairsLinearVector(vectorSeq, insertSeq, db, vectorTopology) ==
    LET vectorCounts  == countEnzymeSites(vectorSeq, db, "linear")
        insertCounts  == countEnzymeSites(insertSeq, db, "linear")
        singleCutters == SelectSeq(db, LAMBDA name :
                                          vectorCounts[name] = 1 /\ insertCounts[name] = 1)
    IN sortByScore(enumeratePairs(singleCutters, 0, 1))

\* suggestEnzymePairs: the enzymes with one site in the vector (under its
\* topology) and one in the insert (linear), in catalog order; every pair
\* i < j of them evaluated; the pairs sorted by score
suggestEnzymePairs(vectorSeq, insertSeq, db, vectorTopology) ==
    LET vectorCounts  == countEnzymeSites(vectorSeq, db, vectorTopology)
        insertCounts  == countEnzymeSites(insertSeq, db, "linear")
        singleCutters == SelectSeq(db, LAMBDA name :
                                          vectorCounts[name] = 1 /\ insertCounts[name] = 1)
    IN sortByScore(enumeratePairs(singleCutters, 0, 1))

(***************************************************************************)
(* suggestEnzymePairs on a vector and an insert.                           *)
(***************************************************************************)
\* most recognition sequences strung together in a vector or an insert
MaxWords == 3

\* the recognition sequences the vectors and inserts are made of
PairingWords == {EnzymePool[name].recognitionSeq : name \in {"TaqI", "HhaI", "AluI"}}

\* the inserts: one to MaxWords recognition sequences in a row
PairingSequences == {Concat(ws) : ws \in SeqsUpTo(PairingWords, MaxWords) \ {<<>>}}

\* the sequence read from its 0-based index r on, the first r bases moved to
\* the end
Rotate(s, r) == SubSeq(s, r + 1, Len(s)) \o SubSeq(s, 1, r)

\* the vectors: the same sequences, also written with the origin two bases
\* further on, inside the first recognition sequence
PairingVectors == {Rotate(s, r) : s \in PairingSequences, r \in {0, 2}}

\* the catalogs handed to suggestEnzymePairs
PairingCatalogs ==
    { <<"EcoRI", "TaqI", "AciI", "HhaI", "AluI">>,
      <<"AluI", "HhaI", "TaqI">> }

InitPairing ==
    /\ \E v \in PairingVectors, t \in {"linear", "circular"} :
          sequence = SequenceRecord(v, t, <<>>)
    /\ \E i \in PairingSequences : insertSequence = SequenceRecord(i, "linear", <<>>)
    /\ enzymeDb \in PairingCatalogs
    /\ sites = << >>
    /\ digestSites = <<>>
    /\ fragments = <<>>
    /\ vectorFragment = NoFragment
    /\ insertFragment = NoFragment
    /\ products = <<>>
    /\ pc = "init"
    /\ insertSites = <<>>
    /\ insertFragments = <<>>
    /\ candidates = <<>>
    /\ pairs = <<>>
    /\ selectedFragmentIds = <<>>
    /\ ligation = LigationInitialState
    /\ params = <<>>
    /\ protocol = <<>>
    /\ roundTrip = <<>>

\* a caller runs suggestEnzymePairs on the vector and the insert
SuggestEnzymePairs ==
    /\ pc = "init"
    /\ pairs' = suggestEnzymePairs(sequence.sequence, insertSequence.sequence, enzymeDb,
                                   sequence.topology)
    /\ pc' = "paired"
    /\ UNCHANGED <<sequence, enzymeDb, sites, digestSites, fragments, vectorFragment,
                   insertFragment, products, insertSequence, insertSites,
                   insertFragments, candidates, selectedFragmentIds, ligation, params,
                   protocol, roundTrip>>

NextPairing == SuggestEnzymePairs

SpecPairing == InitPairing /\ [][NextPairing]_vars

(***************************************************************************)
(* Properties of suggestEnzymePairs.                                       *)
(***************************************************************************)
\* the number of places at which the enzyme cuts the sequence: the start
\* indices at which its recognition sequence occurs, on either strand unless
\* the recognition sequence is its own reverse complement
CutCount(s, e, topology) ==
    Cardinality({q \in Strands(e) \X (0..(Len(s) - 1)) :
                   OccursAt(s, StrandPattern(e, q[1]), q[2], topology)})

\* the catalog enzymes that cut once in the vector and once in the insert
SingleCutterNames ==
    {name \in Range(enzymeDb) :
       /\ CutCount(sequence.sequence, EnzymePool[name], sequence.topology) = 1
       /\ CutCount(insertSequence.sequence, EnzymePool[name], "linear") = 1}

\* the returned pairs made of the enzymes a and b
PairsOf(a, b) == {k \in 1..Len(pairs) : {pairs[k].enzyme1, pairs[k].enzyme2} = {a, b}}

\* C14: suggestEnzymePairs returns exactly one pair for every two different
\* catalog enzymes that each cut once in the vector (under its topology) and
\* once in the insert (linear), no pair with any other enzyme, and the empty
\* list when there are fewer than two such enzymes
C14_PairsOfSingleCutters ==
    pc = "paired" =>
      LET singles == SingleCutterNames
      IN /\ \A a, b \in singles : a # b => Cardinality(PairsOf(a, b)) = 1
         /\ \A k \in 1..Len(pairs) :
               /\ pairs[k].enzyme1 \in singles
               /\ pairs[k].enzyme2 \in singles
               /\ pairs[k].enzyme1 # pairs[k].enzyme2
         /\ Cardinality(singles) < 2 => pairs = <<>>

\* a circular vector and an insert with three single cutters, hence three
\* pairs, while another catalog enzyme cuts neither
C14_Witness ==
    /\ pc = "paired" /\ sequence.topology = "circular"
    /\ Cardinality(SingleCutterNames) = 3
    /\ Len(pairs) = 3
    /\ Len(enzymeDb) > 3

\* the place of the enzyme in the catalog's iteration order
CatalogIndex(name) == CHOOSE k \in 1..Len(enzymeDb) : enzymeDb[k] = name

\* pair p is enumerated before pair q: index i < j over the single cutters in
\* catalog order, the first enzyme's index counting first
EnumeratedBefore(p, q) ==
    \/ CatalogIndex(p.enzyme1) < CatalogIndex(q.enzyme1)
    \/ /\ CatalogIndex(p.enzyme1) = CatalogIndex(q.enzyme1)
       /\ CatalogIndex(p.enzyme2) < CatalogIndex(q.enzyme2)

\* C17: the list returned by suggestEnzymePairs is in non-increasing score
\* order, and pairs of equal score keep their enumeration order
C17_SortedByScoreStable ==
    pc = "paired" =>
      \A k, l \in 1..Len(pairs) :
         k < l => \/ pairs[k].score > pairs[l].score
                  \/ /\ pairs[k].score = pairs[l].score
                     /\ EnumeratedBefore(pairs[k], pairs[l])

\* three pairs: two of equal score ahead of the pair that was enumerated first
C17_Witness ==
    /\ pc = "paired" /\ Len(pairs) = 3
    /\ pairs[1].score = pairs[2].score
    /\ pairs[2].score > pairs[3].score
    /\ EnumeratedBefore(pairs[3], pairs[1])

(***************************************************************************)
(* evaluateEnzymePair on enzymes of every combination of the attributes it *)
(* reads.                                                                  *)
(***************************************************************************)
\* overhang type and overhang sequence of the enzymes scored
PairingOverhangs ==
    { <<"5'", <<"A","A","T","T">> >>, <<"5'", <<"C","G">> >>, <<"3'", <<"C","G">> >>,
      <<"blunt", <<>> >> }

\* the buffer lists of the enzymes scored: the first two share a buffer but for
\* its case, the third shares none
PairingBuffers == { <<"CutSmart">>, <<"NEBuffer 2", "cutsmart">>, <<"NEBuffer 3">> }

\* heatInactivation of the enzymes scored: missing, 0 or 65
PairingHeat == { <<>>, <<0>>, <<65>> }

\* the RestrictionEnzyme records of that name, in the fields evaluateEnzymePair
\* reads
PairingEnzymes(name) ==
    {[name |-> name, overhangType |-> o[1], overhangSeq |-> o[2], buffers |-> b,
      methylationSensitive |-> m, starActivity |-> st, heatInactivation |-> h] :
        o \in PairingOverhangs, b \in PairingBuffers, m \in BOOLEAN, st \in BOOLEAN,
        h \in PairingHeat}

InitPairScore ==
    /\ \E enzyme1 \in PairingEnzymes("Enz1"), enzyme2 \in PairingEnzymes("Enz2") :
          candidates = <<enzyme1, enzyme2>>
    /\ sequence = SequenceRecord(<<"A">>, "linear", <<>>)
    /\ enzymeDb = <<>>
    /\ sites = << >>
    /\ digestSites = <<>>
    /\ fragments = <<>>
    /\ vectorFragment = NoFragment
    /\ insertFragment = NoFragment
    /\ products = <<>>
    /\ pc = "init"
    /\ insertSequence = SequenceRecord(<<"A">>, "linear", <<>>)
    /\ insertSites = <<>>
    /\ insertFragments = <<>>
    /\ pairs = <<>>
    /\ selectedFragmentIds = <<>>
    /\ ligation = LigationInitialState
    /\ params = <<>>
    /\ protocol = <<>>
    /\ roundTrip = <<>>

\* suggestEnzymePairs evaluates the pair of two single cutters
EvaluateEnzymePair ==
    /\ pc = "init"
    /\ pairs' = sortByScore(<<evaluateEnzymePair(candidates[1], candidates[2])>>)
    /\ pc' = "scored"
    /\ UNCHANGED <<sequence, enzymeDb, sites, digestSites, fragments, vectorFragment,
                   insertFragment, products, insertSequence, insertSites,
                   insertFragments, candidates, selectedFragmentIds, ligation, params,
                   protocol, roundTrip>>

NextPairScore == EvaluateEnzymePair

SpecPairScore == InitPairScore /\ [][NextPairScore]_vars

(***************************************************************************)
(* Properties of the score.                                                *)
(***************************************************************************)
\* the two overhang sequences differ
OverhangsDiffer(a, b) == a.overhangSeq # b.overhangSeq

\* the two enzymes have a buffer in common, letter case aside
ShareBuffer(a, b) ==
    \E k \in 1..Len(a.buffers), l \in 1..Len(b.buffers) :
       toLowerCase[a.buffers[k]] = toLowerCase[b.buffers[l]]

\* a sum of hundredths clamped to [0, 1]
ClampUnit(x) == IF x < 0 THEN 0 ELSE IF x > 100 THEN 100 ELSE x

\* the score as claimed: bonuses for different overhangs and for a shared
\* buffer, nothing taken off otherwise
ClaimedScore(a, b) ==
    ClampUnit(50
              + (IF OverhangsDiffer(a, b) THEN 20 ELSE 0)
              + (IF ShareBuffer(a, b) THEN 15 ELSE 0)
              - (IF a.starActivity THEN 10 ELSE 0)
              - (IF b.starActivity THEN 10 ELSE 0)
              + (IF a.heatInactivation # <<>> /\ b.heatInactivation # <<>> THEN 10 ELSE 0)
              + (IF a.overhangType = "5'" /\ b.overhangType = "5'" THEN 5 ELSE 0))

\* the score as amended: equal overhangs and the lack of a shared buffer are
\* taken off, and a heat-inactivation temperature of 0 does not count
AmendedScore(a, b) ==
    ClampUnit(50
              + (IF OverhangsDiffer(a, b) THEN 20 ELSE -20)
              + (IF ShareBuffer(a, b) THEN 15 ELSE -10)
              - (IF a.starActivity THEN 10 ELSE 0)
              - (IF b.starActivity THEN 10 ELSE 0)
              + (IF /\ a.heatInactivation # <<>> /\ a.heatInactivation # <<0>>
                    /\ b.heatInactivation # <<>> /\ b.heatInactivation # <<0>>
                 THEN 10 ELSE 0)
              + (IF a.overhangType = "5'" /\ b.overhangType = "5'" THEN 5 ELSE 0))

\* C15 as claimed: the score is the clamp to [0,1] of 0.5, +0.2 for different
\* overhang sequences, +0.15 for a shared buffer, -0.1 per enzyme with star
\* activity, +0.1 if both have a heat-inactivation temperature, +0.05 if both
\* leave 5' overhangs, and nothing else
C15_ScoreAsClaimed ==
    pc = "scored" =>
      \A k \in 1..Len(pairs) : pairs[k].score = ClaimedScore(candidates[1], candidates[2])

\* C15 as amended: as claimed, and -0.2 for equal overhang sequences, -0.1 for
\* no shared buffer, the +0.1 only when both heat-inactivation temperatures are
\* not 0
C15_ScoreWithPenalties ==
    pc = "scored" =>
      /\ Len(pairs) = 1
      /\ pairs[1].score = AmendedScore(candidates[1], candidates[2])

\* a pair with equal overhangs that shares a buffer, without star activity,
\* both 5' cutters with a heat-inactivation temperature: 0.5 - 0.2 + 0.15 + 0.1
\* + 0.05
C15_Witness ==
    /\ pc = "scored"
    /\ ~OverhangsDiffer(candidates[1], candidates[2])
    /\ ShareBuffer(candidates[1], candidates[2])
    /\ candidates[1].buffers # candidates[2].buffers
    /\ pairs[1].score = 60

\* C16: every EnzymePair has 0 <= score <= 1, for every combination of
\* overhang equality, buffer sharing, star activity, heat inactivation and
\* overhang type
C16_ScoreInUnitInterval ==
    pc = "scored" => \A k \in 1..Len(pairs) : pairs[k].score >= 0 /\ pairs[k].score <= 100

\* the pair with every penalty: equal overhangs, no shared buffer, star
\* activity on both enzymes
C16_Witness ==
    /\ pc = "scored"
    /\ ~OverhangsDiffer(candidates[1], candidates[2])
    /\ ~ShareBuffer(candidates[1], candidates[2])
    /\ candidates[1].starActivity /\ candidates[2].starActivity
    /\ pairs[1].score = 0

\* the scores of the pairs with equal overhang sequences and no shared buffer
SameNoShareScores ==
    {evaluateEnzymePair(q[1], q[2]).score :
       q \in {r \in PairingEnzymes("Enz3") \X PairingEnzymes("Enz4") :
                ~OverhangsDiffer(r[1], r[2]) /\ ~ShareBuffer(r[1], r[2])}}

\* C18: a pair with different overhang sequences and a shared buffer scores
\* strictly higher than any pair with equal overhang sequences and no shared
\* buffer, whatever the other attributes of the four enzymes
C18_DifferentSharedScoresHigher ==
    (pc = "scored" /\ OverhangsDiffer(candidates[1], candidates[2])
       /\ ShareBuffer(candidates[1], candidates[2]))
      => \A x \in SameNoShareScores : pairs[1].score > x

\* the lowest-scoring pair with different overhangs and a shared buffer (both
\* with star activity, no heat inactivation) against the highest-scoring pair
\* with equal overhangs and no shared buffer
C18_Witness ==
    /\ pc = "scored"
    /\ OverhangsDiffer(candidates[1], candidates[2])
    /\ ShareBuffer(candidates[1], candidates[2])
    /\ candidates[1].starActivity /\ candidates[2].starActivity
    /\ pairs[1].score = 65
    /\ 35 \in SameNoShareScores

(***************************************************************************)
(* reverseComplement (utils/sequence.ts) applied twice.                    *)
(***************************************************************************)
\* the alphabet of DNA strings: the four bases and N
DnaAlphabet == {"A", "C", "G", "T", "N"}

InitRoundTrip ==
    /\ \E s \in SeqsUpTo(DnaAlphabet, MaxSeqLen) : sequence = SequenceRecord(s, "linear", <<>>)
    /\ enzymeDb = <<>>
    /\ sites = << >>
    /\ digestSites = <<>>
    /\ fragments = <<>>
    /\ vectorFragment = NoFragment
    /\ insertFragment = NoFragment
    /\ products = <<>>
    /\ pc = "init"
    /\ AdvisorIdle

\* a caller takes the reverse complement of the sequence, and the reverse
\* complement of the result
ReverseComplementTwice ==
    /\ pc = "init"
    /\ LET once == reverseComplement(sequence.sequence)
       IN roundTrip' = [once |-> once, twice |-> reverseComplement(once)]
    /\ pc' = "complemented"
    /\ UNCHANGED <<sequence, enzymeDb, sites, digestSites, fragments, vectorFragment,
                   insertFragment, products, insertSequence, insertSites,
                   insertFragments, candidates, pairs, selectedFragmentIds, ligation,
                   params, protocol>>

NextRoundTrip == ReverseComplementTwice

SpecRoundTrip == InitRoundTrip /\ [][NextRoundTrip]_vars

\* C19: reverseComplement(reverseComplement(s)) = s for every string s over
\* A, C, G, T, N
C19_ReverseComplementRoundTrip ==
    pc = "complemented" => roundTrip.twice = sequence.sequence

\* a string with all five letters whose reverse complement is another
\* string, the opposite strand read 5' to 3' with N for N
C19_Witness ==
    /\ pc = "complemented"
    /\ Range(sequence.sequence) = DnaAlphabet
    /\ roundTrip.once # sequence.sequence
    /\ \A k \in 1..Len(sequence.sequence) :
          roundTrip.once[k] =
             IF sequence.sequence[Len(sequence.sequence) + 1 - k] = "N" THEN "N"
             ELSE WatsonCrick[sequence.sequence[Len(sequence.sequence) + 1 - k]]
    /\ roundTrip.twice = sequence.sequence

(***************************************************************************)
(* Engine calls repeated on the same inputs.                               *)
(***************************************************************************)
\* a vector, an insert of one recognition sequence and a catalog
InitRepeat ==
    /\ \E v \in PairingVectors, t \in {"linear", "circular"} :
          sequence = SequenceRecord(v, t, <<>>)
    /\ \E i \in PairingWords : insertSequence = SequenceRecord(i, "linear", <<>>)
    /\ enzymeDb = <<"AluI", "HhaI", "TaqI">>
    /\ sites = << >>
    /\ digestSites = <<>>
    /\ fragments = <<>>
    /\ vectorFragment = NoFragment
    /\ insertFragment = NoFragment
    /\ products = <<>>
    /\ pc = "init"
    /\ insertSites = <<>>
    /\ insertFragments = <<>>
    /\ candidates = <<>>
    /\ pairs = <<>>
    /\ selectedFragmentIds = <<>>
    /\ ligation = LigationInitialState
    /\ params = <<>>
    /\ protocol = <<>>
    /\ roundTrip = <<>>

\* findRestrictionSites is called once more on the same sequence, catalog and
\* topology
FindRestrictionSitesAgain ==
    /\ pc = "found"
    /\ sites' = findRestrictionSites(sequence.sequence, enzymeDb, sequence.topology)
    /\ UNCHANGED <<sequence, enzymeDb, digestSites, fragments, vectorFragment,
                   insertFragment, products, pc, advisorVars>>

\* simulateDigest is called once more on the same sequence, site list and
\* catalog
SimulateDigestAgain ==
    /\ pc = "digested"
    /\ \E uuid \in UuidSeeds :
          fragments' = simulateDigest(sequence, digestSites, enzymeDb, uuid)
    /\ UNCHANGED <<sequence, enzymeDb, sites, digestSites, vectorFragment,
                   insertFragment, products, pc, advisorVars>>

\* suggestEnzymePairs is called on the vector and the insert, a first time
\* after the digest and then again on the same arguments
SuggestEnzymePairsAgain ==
    /\ pc \in {"digested", "paired"}
    /\ pairs' = suggestEnzymePairs(sequence.sequence, insertSequence.sequence, enzymeDb,
                                   sequence.topology)
    /\ pc' = "paired"
    /\ UNCHANGED <<sequence, enzymeDb, sites, digestSites, fragments, vectorFragment,
                   insertFragment, products, insertSequence, insertSites,
                   insertFragments, candidates, selectedFragmentIds, ligation, params,
                   protocol, roundTrip>>

NextRepeat ==
    \/ FindRestrictionSites
    \/ FindRestrictionSitesAgain
    \/ PerformDigest
    \/ SimulateDigestAgain
    \/ SuggestEnzymePairsAgain

SpecRepeat == InitRepeat /\ [][NextRepeat]_vars

\* C20: a call of findRestrictionSites, simulateDigest or suggestEnzymePairs
\* repeated on identical inputs returns the output of the call before it,
\* field for field, fragment identifiers included
C20_RepeatedCallsAgree ==
    [][pc' = pc => (sites' = sites /\ fragments' = fragments /\ pairs' = pairs)]_vars

\* what the code does: the repeated digest returns the same fragments under
\* identifiers drawn anew, the other two calls return the same output
C20_RepeatedCallsAgreeButForIds ==
    [][pc' = pc =>
         /\ sites' = sites /\ pairs' = pairs
         /\ [k \in 1..Len(fragments') |-> Described(fragments'[k])]
              = [k \in 1..Len(fragments) |-> Described(fragments[k])]]_vars

(***************************************************************************)
(* simulateDigest at caller-chosen cuts of known enzymes.                  *)
(***************************************************************************)
\* the enzymes of those cuts: a 5' cutter with an asymmetric overhang, a 3'
\* cutter and a blunt cutter
CutEnzymes == {"BbvCI", "HhaI", "AluI"}

\* the catalog of those digests: every enzyme of a cut is known
CutCatalog == <<"BbvCI", "HhaI", "AluI">>

\* the cuts a caller may list for a sequence of length n: any enzyme, any cut
\* position from 0 to n
CutChoices(n) == {SiteAt(e, p) : e \in CutEnzymes, p \in 0..n}

InitCut ==
    /\ \E s \in NonEmptySeqs(DigestBases, MaxDigestLen), t \in {"linear", "circular"} :
          sequence = SequenceRecord(s, t, <<>>)
    /\ enzymeDb = CutCatalog
    /\ sites = << >>
    /\ digestSites = <<>>
    /\ fragments = <<>>
    /\ vectorFragment = NoFragment
    /\ insertFragment = NoFragment
    /\ products = <<>>
    /\ pc = "init"
    /\ AdvisorIdle

\* a caller runs simulateDigest on a list of cuts
SimulateDigestAtCuts ==
    /\ pc = "init"
    /\ \E ss \in SeqsUpTo(CutChoices(sequence.length), MaxSites), uuid \in UuidSeeds :
          /\ digestSites' = ss
          /\ fragments' = simulateDigest(sequence, ss, enzymeDb, uuid)
    /\ pc' = "digested"
    /\ UNCHANGED <<sequence, enzymeDb, sites, vectorFragment, insertFragment, products,
                   advisorVars>>

NextCut == SimulateDigestAtCuts

SpecCut == InitCut /\ [][NextCut]_vars

\* the bag of the elements of a sequence of numbers
BagOf(ns) == [x \in Range(ns) |-> Cardinality({k \in 1..Len(ns) : ns[k] = x})]

\* the sequence of numbers does not decrease
Ascending(ns) == \A k \in 1..(Len(ns) - 1) : ns[k] <= ns[k + 1]

SitePositions(ss) == [k \in 1..Len(ss) |-> ss[k].position]

\* end b is the structural complement of end a: blunt for blunt; otherwise the
\* other overhang type and the overhang read on the opposite strand
StructuralComplement(a, b) ==
    IF a.type = "blunt" THEN b.type = "blunt"
    ELSE /\ b.type = (IF a.type = "5'-overhang" THEN "3'-overhang" ELSE "5'-overhang")
         /\ b.overhangSeq = OppositeStrand(a.overhangSeq)

\* C21: a linear digest at N >= 1 sites of known enzymes returns N + 1
\* fragments; the first starts at 0, each fragment ends where the next one
\* starts, at the cut positions in ascending order, the last ends at
\* sequence.length; the outer ends are blunt, and at every cut the next
\* fragment's fivePrimeEnd is the structural complement of the previous
\* fragment's threePrimeEnd
C21_LinearContiguousComplementaryEnds ==
    (pc = "digested" /\ sequence.topology = "linear" /\ Len(digestSites) >= 1
       /\ AllKnown(digestSites, enzymeDb))
      => LET N    == Len(digestSites)
             cuts == [k \in 1..N |-> fragments[k].end]
         IN /\ Len(fragments) = N + 1
            /\ fragments[1].start = 0
            /\ fragments[N + 1].end = sequence.length
            /\ \A k \in 1..N : fragments[k].end = fragments[k + 1].start
            /\ Ascending(cuts)
            /\ BagOf(cuts) = BagOf(SitePositions(digestSites))
            /\ fragments[1].fivePrimeEnd.type = "blunt"
            /\ fragments[N + 1].threePrimeEnd.type = "blunt"
            /\ \A k \in 1..N :
                  StructuralComplement(fragments[k].threePrimeEnd,
                                       fragments[k + 1].fivePrimeEnd)

\* a linear digest at a blunt cut and, before it in the sequence but after it in
\* the list, a cut leaving an overhang that differs from its reverse complement
C21_Witness ==
    /\ pc = "digested" /\ sequence.topology = "linear"
    /\ Len(digestSites) = 2 /\ Len(fragments) = 3
    /\ digestSites[1].enzyme = "AluI" /\ digestSites[2].enzyme = "BbvCI"
    /\ digestSites[2].position < digestSites[1].position
    /\ fragments[1].threePrimeEnd.overhangSeq = <<"T", "C", "A">>
    /\ fragments[2].fivePrimeEnd.overhangSeq = <<"T", "G", "A">>
    /\ fragments[2].threePrimeEnd.type = "blunt"
    /\ fragments[3].fivePrimeEnd.type = "blunt"

(***************************************************************************)
(* simulateDigest on sequences that carry features.                        *)
(***************************************************************************)
\* the longest feature list of a digested sequence
MaxFeatures == 2

\* one sequence per length: the features and the cuts are what matters here
FeatureSequences == {[i \in 1..n |-> IF i % 2 = 1 THEN "A" ELSE "C"] : n \in 1..MaxDigestLen}

\* the i-th feature of a list, over [start, end)
Feature(i, start, end) == [id |-> i, start |-> start, end |-> end]

\* the feature lists of a sequence of length n: 0 <= start < end <= n, the
\* identifier of a feature is its place in the list
FeatureLists(n) ==
    LET spans == {q \in (0..n) \X (0..n) : q[1] < q[2]}
    IN UNION {{[i \in 1..k |-> Feature(i, g[i][1], g[i][2])] : g \in [1..k -> spans]} :
                 k \in 0..MaxFeatures}

\* the cuts of these digests: one blunt cutter at any position from 0 to n
FeatureCuts(n) == {SiteAt("AluI", p) : p \in 0..n}

InitFeatures ==
    /\ \E s \in FeatureSequences, t \in {"linear", "circular"} :
          \E fs \in FeatureLists(Len(s)) : sequence = SequenceRecord(s, t, fs)
    /\ enzymeDb = CutCatalog
    /\ sites = << >>
    /\ digestSites = <<>>
    /\ fragments = <<>>
    /\ vectorFragment = NoFragment
    /\ insertFragment = NoFragment
    /\ products = <<>>
    /\ pc = "init"
    /\ AdvisorIdle

\* a caller runs simulateDigest on the annotated sequence
SimulateDigestWithFeatures ==
    /\ pc = "init"
    /\ \E ss \in SeqsUpTo(FeatureCuts(sequence.length), MaxSites), uuid \in UuidSeeds :
          /\ digestSites' = ss
          /\ fragments' = simulateDigest(sequence, ss, enzymeDb, uuid)
    /\ pc' = "digested"
    /\ UNCHANGED <<sequence, enzymeDb, sites, vectorFragment, insertFragment, products,
                   advisorVars>>

NextFeatures == SimulateDigestWithFeatures

SpecFeatures == InitFeatures /\ [][NextFeatures]_vars

\* feature f of the sequence lies inside the span of fragment fr: the fr.length
\* bases from fr.start on, continued past the origin on a ring
InsideSpan(f, fr) ==
    \/ fr.start <= f.start /\ f.end <= fr.start + fr.length
    \/ sequence.topology = "circular" /\ f.end <= fr.start + fr.length - sequence.length

\* g is feature f in the coordinates of fragment fr
Rebased(f, g, fr) ==
    /\ g.id = f.id
    /\ g.start = (f.start - fr.start) % sequence.length
    /\ g.end = g.start + (f.end - f.start)

\* a cut position falls strictly inside feature f
SpansCut(f) == \E k \in 1..Len(digestSites) :
                  f.start < digestSites[k].position /\ digestSites[k].position < f.end

\* the fragments that list feature f
FragmentsListing(f) ==
    {k \in 1..Len(fragments) :
        \E j \in 1..Len(fragments[k].features) : fragments[k].features[j].id = f.id}

\* C22: every feature listed in a fragment is a feature of the input sequence
\* lying fully inside the fragment's span, in fragment coordinates with
\* 0 <= start < end <= fragment.length; a feature spanning a cut position is
\* listed in no fragment
C22_FeaturesContainedAndRebased ==
    pc = "digested"
      => /\ \A k \in 1..Len(fragments) : \A j \in 1..Len(fragments[k].features) :
               LET g == fragments[k].features[j]
               IN /\ \E i \in 1..Len(sequence.features) :
                        /\ InsideSpan(sequence.features[i], fragments[k])
                        /\ Rebased(sequence.features[i], g, fragments[k])
                  /\ 0 <= g.start /\ g.start < g.end /\ g.end <= fragments[k].length
         /\ \A i \in 1..Len(sequence.features) :
               SpansCut(sequence.features[i]) => FragmentsListing(sequence.features[i]) = {}

\* a digest at two cuts of a sequence with one feature between the cuts, listed
\* rebased in the middle fragment, and one feature across the first cut, listed
\* nowhere
C22_Witness ==
    /\ pc = "digested" /\ Len(digestSites) = 2 /\ Len(fragments) = 3
    /\ Len(sequence.features) = 2
    /\ SpansCut(sequence.features[1])
    /\ FragmentsListing(sequence.features[1]) = {}
    /\ FragmentsListing(sequence.features[2]) = {2}
    /\ fragments[2].start > 0
    /\ fragments[2].features[1].start = sequence.features[2].start - fragments[2].start

\* every cut position is a coordinate of the sequence: 0..length when linear,
\* 0..length-1 on a ring
ValidCuts ==
    \A k \in 1..Len(digestSites) :
       /\ 0 <= digestSites[k].position
       /\ digestSites[k].position <= sequence.length
       /\ sequence.topology = "circular" => digestSites[k].position < sequence.length

\* C30: in a digest at one valid cut or more, every feature of the sequence that no
\* cut position falls strictly inside is listed in exactly one fragment, also
\* when it lies in the part of a circular fragment past the origin
C30_UncutFeatureInOneFragment ==
    (pc = "digested" /\ Len(digestSites) >= 1 /\ ValidCuts)
      => \A i \in 1..Len(sequence.features) :
            ~SpansCut(sequence.features[i])
              => Cardinality(FragmentsListing(sequence.features[i])) = 1

\* what the code does: the same for a linear sequence; on a ring a feature is
\* listed once when it starts at or after the first cut position, and nowhere
\* when it lies before it
C30_UncutFeatureFromFirstCutOn ==
    (pc = "digested" /\ Len(digestSites) >= 1 /\ ValidCuts)
      => \A i \in 1..Len(sequence.features) :
            LET f == sequence.features[i]
                beforeFirstCut == \A k \in 1..Len(digestSites) :
                                     f.start < digestSites[k].position
            IN ~SpansCut(f)
                 => Cardinality(FragmentsListing(f))
                      = (IF sequence.topology = "circular" /\ beforeFirstCut THEN 0 ELSE 1)

(***************************************************************************)
(* simulateDigest on the same cuts listed in another order.                *)
(***************************************************************************)
\* the list ss with its elements k and k + 1 exchanged
SwapAdjacent(ss, k) ==
    [i \in 1..Len(ss) |-> IF i = k THEN ss[k + 1] ELSE IF i = k + 1 THEN ss[k] ELSE ss[i]]

\* the caller runs simulateDigest again on the same sequence and catalog, with
\* two neighbours of the site list exchanged
SimulateDigestReordered ==
    /\ pc = "digested"
    /\ \E k \in 1..(Len(digestSites) - 1), uuid \in UuidSeeds :
          /\ digestSites' = SwapAdjacent(digestSites, k)
          /\ fragments' = simulateDigest(sequence, digestSites', enzymeDb, uuid)
    /\ UNCHANGED <<sequence, enzymeDb, sites, vectorFragment, insertFragment, products,
                   pc, advisorVars>>

NextOrder == SimulateDigestAtCuts \/ SimulateDigestReordered

SpecOrder == InitCut /\ [][NextOrder]_vars

DescribedAll(fs) == [k \in 1..Len(fs) |-> Described(fs[k])]

\* C23: the fragments of a digest (sequences, coordinates, end descriptors) do
\* not depend on the order in which the caller lists the sites: a digest of the
\* reordered list returns the fragments of the digest before it
C23_OrderOfSitesIrrelevant ==
    [][pc = "digested" => DescribedAll(fragments') = DescribedAll(fragments)]_vars

\* what the code does: the order is irrelevant when sites of different enzymes
\* lie at different positions; sites at one position are processed in the
\* caller's order
C23_OrderIrrelevantWithoutTies ==
    [][(pc = "digested"
          /\ \A k, l \in 1..Len(digestSites) :
                digestSites[k].position = digestSites[l].position
                  => digestSites[k].enzyme = digestSites[l].enzyme)
         => DescribedAll(fragments') = DescribedAll(fragments)]_vars

(***************************************************************************)
(* Filtering a catalog by cut count (enzymes/finder.ts, enzymes/pairing.ts) *)
(***************************************************************************)
\* filterEnzymesByCutCount with maxCuts exclusive
filterEnzymesByCutCountBelowMax(seq, db, minCuts, maxCuts, topology) ==
    LET counts == countEnzymeSites(seq, db, topology)
    IN SelectSeq(db, LAMBDA name :
                        LET count == IF name \in DOMAIN counts THEN counts[name] ELSE 0
                        IN count >= minCuts /\ count < maxCuts)

\* filterEnzymesByCutCount: the catalog entries, in catalog order, whose count
\* (counts[name] || 0) lies in minCuts..maxCuts; the result is given by its keys
filterEnzymesByCutCount(seq, db, minCuts, maxCuts, topology) ==
    LET counts == countEnzymeSites(seq, db, topology)
    IN SelectSeq(db, LAMBDA name :
                        LET count == IF name \in DOMAIN counts THEN counts[name] ELSE 0
                        IN count >= minCuts /\ count <= maxCuts)

\* findSingleCutters: the names of Object.entries(counts) whose count is 1
findSingleCutters(seq, db, topology) ==
    LET counts == countEnzymeSites(seq, db, topology)
    IN SelectSeq(db, LAMBDA name : name \in DOMAIN counts /\ counts[name] = 1)

\* findNonCutters: the catalog names with no count or a count of 0
findNonCutters(seq, db, topology) ==
    LET counts == countEnzymeSites(seq, db, topology)
    IN SelectSeq(db, LAMBDA name : name \notin DOMAIN counts \/ counts[name] = 0)

\* the largest minCuts and maxCuts a caller passes
MaxCuts == 2

InitFilter ==
    /\ \E v \in PairingVectors, t \in {"linear", "circular"} :
          sequence = SequenceRecord(v, t, <<>>)
    /\ enzymeDb \in PairingCatalogs
    /\ sites = << >>
    /\ digestSites = <<>>
    /\ fragments = <<>>
    /\ vectorFragment = NoFragment
    /\ insertFragment = NoFragment
    /\ products = <<>>
    /\ pc = "init"
    /\ AdvisorIdle

\* a caller runs filterEnzymesByCutCount, findSingleCutters and findNonCutters
\* on the sequence and the catalog
FilterEnzymesByCutCount ==
    /\ pc = "init"
    /\ \E minCuts \in 0..MaxCuts, maxCuts \in 0..MaxCuts :
          candidates' =
             [minCuts       |-> minCuts,
              maxCuts       |-> maxCuts,
              filtered      |-> filterEnzymesByCutCount(sequence.sequence, enzymeDb, minCuts,
                                                        maxCuts, sequence.topology),
              singleCutters |-> findSingleCutters(sequence.sequence, enzymeDb,
                                                  sequence.topology),
              nonCutters    |-> findNonCutters(sequence.sequence, enzymeDb,
                                               sequence.topology)]
    /\ pc' = "filtered"
    /\ UNCHANGED <<sequence, enzymeDb, sites, digestSites, fragments, vectorFragment,
                   insertFragment, products, insertSequence, insertSites,
                   insertFragments, pairs, selectedFragmentIds, ligation, params,
                   protocol, roundTrip>>

NextFilter == FilterEnzymesByCutCount

SpecFilter == InitFilter /\ [][NextFilter]_vars

\* C24: filterEnzymesByCutCount(seq, catalog, min, max) returns exactly the
\* catalog enzymes that cut the sequence c times with min <= c <= max; with
\* (1, 1) its keys are the result of findSingleCutters, with (0, 0) that of
\* findNonCutters; single cutters and non-cutters are disjoint subsets of the
\* catalog
C24_FilterByCutCount ==
    pc = "filtered"
      => /\ Range(candidates.filtered)
              = {name \in Range(enzymeDb) :
                   LET c == CutCount(sequence.sequence, EnzymePool[name], sequence.topology)
                   IN candidates.minCuts <= c /\ c <= candidates.maxCuts}
         /\ (candidates.minCuts = 1 /\ candidates.maxCuts = 1)
               => Range(candidates.filtered) = Range(candidates.singleCutters)
         /\ (candidates.minCuts = 0 /\ candidates.maxCuts = 0)
               => Range(candidates.filtered) = Range(candidates.nonCutters)
         /\ Range(candidates.singleCutters) \cap Range(candidates.nonCutters) = {}
         /\ Range(candidates.singleCutters) \subseteq Range(enzymeDb)
         /\ Range(candidates.nonCutters) \subseteq Range(enzymeDb)

\* a ring with a single cutter whose site lies across the origin, a double
\* cutter and non-cutters, filtered with (1, 1)
C24_Witness ==
    /\ pc = "filtered" /\ sequence.topology = "circular"
    /\ candidates.minCuts = 1 /\ candidates.maxCuts = 1
    /\ candidates.filtered = <<"HhaI">>
    /\ candidates.singleCutters = <<"HhaI">>
    /\ CutCount(sequence.sequence, EnzymePool["HhaI"], "linear") = 0
    /\ CutCount(sequence.sequence, EnzymePool["TaqI"], "circular") = 2
    /\ "EcoRI" \in Range(candidates.nonCutters)

(***************************************************************************)
(* findRestrictionSites on sequences with sites on both strands, and on    *)
(* a ring read from another origin.                                        *)
(***************************************************************************)
\* the words of these sequences: the recognition sequence of AciI, its reverse
\* complement, and the palindrome of TaqI
ScanWords == { EnzymePool["AciI"].recognitionSeq,
               OppositeStrand(EnzymePool["AciI"].recognitionSeq),
               EnzymePool["TaqI"].recognitionSeq }

ScanSequences == {Concat(ws) : ws \in SeqsUpTo(ScanWords, MaxWords) \ {<<>>}}

ScanCatalogs == { <<"EcoRI", "TaqI", "AciI", "HhaI", "AluI">>, <<"AciI", "TaqI">> }

InitScan ==
    /\ \E s \in ScanSequences, t \in {"linear", "circular"} :
          sequence = SequenceRecord(s, t, <<>>)
    /\ enzymeDb \in ScanCatalogs
    /\ sites = << >>
    /\ digestSites = <<>>
    /\ fragments = <<>>
    /\ vectorFragment = NoFragment
    /\ insertFragment = NoFragment
    /\ products = <<>>
    /\ pc = "init"
    /\ AdvisorIdle

\* the ring is written from its next base on and searched again
MoveOrigin ==
    /\ pc \in {"found", "rotated"}
    /\ sequence.topology = "circular"
    /\ sequence' = SequenceRecord(Rotate(sequence.sequence, 1), "circular", <<>>)
    /\ sites' = findRestrictionSites(sequence'.sequence, enzymeDb, "circular")
    /\ pc' = "rotated"
    /\ UNCHANGED <<enzymeDb, digestSites, fragments, vectorFragment, insertFragment,
                   products, advisorVars>>

NextScan == FindRestrictionSites \/ MoveOrigin

SpecScan == InitScan /\ [][NextScan]_vars

\* C25: the site list findRestrictionSites returns for an enzyme is in
\* ascending scan order: recognitionStart never decreases along the list, also
\* when the enzyme has forward-strand and reverse-strand sites
C25_SitesAscendingPerEnzyme ==
    pc \in {"found", "rotated"}
      => \A name \in Range(enzymeDb) :
            Ascending([k \in 1..Len(sites[name]) |-> sites[name][k].recognitionStart])

\* what the code does: the forward-strand sites in ascending order, then the
\* reverse-strand sites in ascending order
C25_SitesAscendingPerStrand ==
    pc \in {"found", "rotated"}
      => \A name \in Range(enzymeDb) :
            \A k \in 1..(Len(sites[name]) - 1) :
               LET a == sites[name][k]
                   b == sites[name][k + 1]
               IN \/ a.strand = b.strand /\ a.recognitionStart < b.recognitionStart
                  \/ a.strand = 1 /\ b.strand = -1

\* the number of sites reported per enzyme
SiteCounts(found) == [name \in DOMAIN found |-> Len(found[name])]

\* C27: on a ring at least as long as the longest recognition sequence of the
\* catalog, findRestrictionSites reports the same number of sites for each
\* enzyme whichever base the ring is written from
C27_CountsInvariantUnderRotation ==
    [][(pc' = "rotated" /\ sequence.length >= MaxRecognitionLength(enzymeDb))
         => SiteCounts(sites') = SiteCounts(sites)]_vars

\* a ring searched after its origin moved into a recognition sequence: one
\* enzyme has a site across the origin, and one has sites on both strands
C27_Witness ==
    /\ pc = "rotated"
    /\ sequence.length >= MaxRecognitionLength(enzymeDb)
    /\ \E name \in Range(enzymeDb) : \E k \in 1..Len(sites[name]) :
          sites[name][k].recognitionEnd > sequence.length
    /\ \E k, l \in 1..Len(sites["AciI"]) :
          sites["AciI"][k].strand = 1 /\ sites["AciI"][l].strand = -1

\* C28: every site findRestrictionSites returns has a cut position that is a
\* coordinate of the sequence: 0 <= position <= length when linear,
\* 0 <= position < length on a ring
C28_CutPositionValid ==
    pc \in {"found", "rotated"}
      => \A name \in Range(enzymeDb) : \A k \in 1..Len(sites[name]) :
            LET position == sites[name][k].position
            IN /\ 0 <= position
               /\ position <= sequence.length
               /\ sequence.topology = "circular" => position < sequence.length

\* what the code does: every cut position is the start of the recognition
\* sequence, a coordinate of the sequence, plus the cut offset, without
\* reduction modulo the length
C28_CutPositionUnreduced ==
    pc \in {"found", "rotated"}
      => \A name \in Range(enzymeDb) : \A k \in 1..Len(sites[name]) :
            LET site == sites[name][k]
            IN /\ 0 <= site.recognitionStart
               /\ site.recognitionStart < sequence.length
               /\ site.position - site.recognitionStart
                    \in {EnzymePool[name].cutPos5, EnzymePool[name].cutPos3}
               /\ sequence.topology = "linear" => site.position <= sequence.length

(***************************************************************************)
(* Properties of circular digests at caller-chosen cuts.                   *)
(***************************************************************************)
\* C26: a circular digest at N >= 1 sites of known enzymes with positions
\* p1 <= ... <= pN inside [0, L) returns N fragments; fragment k starts at pk,
\* ends at the next cut position reduced modulo L and carries the bases from
\* pk to p(k+1); the last one carries the tail from pN and then the head up to
\* p1, which for a single site at p is the rotation seq[p..L) + seq[0..p)
C26_CircularFragmentsCyclicSubstrings ==
    (pc = "digested" /\ sequence.topology = "circular" /\ Len(digestSites) >= 1
       /\ ValidCuts /\ AllKnown(digestSites, enzymeDb))
      => LET N      == Len(digestSites)
             L      == sequence.length
             starts == [k \in 1..Len(fragments) |-> fragments[k].start]
         IN /\ Len(fragments) = N
            /\ Ascending(starts)
            /\ BagOf(starts) = BagOf(SitePositions(digestSites))
            /\ \A k \in 1..(N - 1) :
                  /\ fragments[k].end = starts[k + 1] % L
                  /\ fragments[k].sequence
                       = SubSeq(sequence.sequence, starts[k] + 1, starts[k + 1])
            /\ fragments[N].end = starts[1] % L
            /\ fragments[N].sequence
                 = SubSeq(sequence.sequence, starts[N] + 1, L)
                     \o SubSeq(sequence.sequence, 1, starts[1])

\* a ring cut at two different positions after the origin, listed in descending
\* order: the last fragment has a tail and a head
C26_Witness ==
    /\ pc = "digested" /\ sequence.topology = "circular"
    /\ Len(digestSites) = 2 /\ Len(fragments) = 2
    /\ digestSites[1].position > digestSites[2].position
    /\ digestSites[2].position > 0
    /\ digestSites[1].position < sequence.length
    /\ fragments[2].start > fragments[2].end
    /\ fragments[2].length = sequence.length - fragments[2].start + fragments[2].end

\* C29: in a digest at sites of known enzymes, linear or circular, the two ends
\* a cut creates can be ligated back together: areEndsCompatible holds of the
\* threePrimeEnd of the fragment ending at the cut and the fivePrimeEnd of the
\* fragment starting at it
C29_CutEndsReligate ==
    (pc = "digested" /\ Len(digestSites) >= 1 /\ AllKnown(digestSites, enzymeDb))
      => LET N == Len(digestSites)
         IN IF sequence.topology = "linear"
            THEN /\ Len(fragments) = N + 1
                 /\ \A k \in 1..N :
                       areEndsCompatible(fragments[k].threePrimeEnd,
                                         fragments[k + 1].fivePrimeEnd)
            ELSE /\ Len(fragments) = N
                 /\ \A k \in 1..N :
                       areEndsCompatible(fragments[k].threePrimeEnd,
                                         fragments[(k % N) + 1].fivePrimeEnd)

\* a ring cut by the blunt cutter and by the cutter whose overhang differs from
\* its reverse complement: the overhang cut joins the second fragment to the
\* first across the origin
C29_Witness ==
    /\ pc = "digested" /\ sequence.topology = "circular"
    /\ Len(digestSites) = 2 /\ Len(fragments) = 2
    /\ fragments[1].fivePrimeEnd.enzyme = "BbvCI"
    /\ fragments[1].fivePrimeEnd.overhangSeq = <<"T", "C", "A">>
    /\ fragments[2].threePrimeEnd.overhangSeq = <<"T", "G", "A">>
    /\ fragments[1].threePrimeEnd.type = "blunt"
    /\ fragments[2].fivePrimeEnd.type = "blunt"
    /\ fragments[2].fivePrimeEnd.enzyme = "AluI"

\* a linear sequence cut by the 3' cutter: the ends left and right of the cut
C29_LinearWitness ==
    /\ pc = "digested" /\ sequence.topology = "linear"
    /\ Len(digestSites) = 1 /\ Len(fragments) = 2
    /\ fragments[1].threePrimeEnd.type = "3'-overhang"
    /\ fragments[2].fivePrimeEnd.type = "5'-overhang"

====
